---------------------------- MODULE Spec2Model ----------------------------
(***************************************************************************)
(* Model of the timetable extraction and reconciliation engine             *)
(* (extract_simplified_schedule.py and the document loop of app.py).       *)
(*                                                                         *)
(* A Python str is a sequence of characters; a character is a one-token    *)
(* TLA+ string.  Characters outside ASCII are written as two-letter        *)
(* tokens: "I_" (dotted capital I), "i_" (dotless small i), "C_" "c_"      *)
(* (c cedilla), "S_" "s_" (s cedilla), "G_" "g_" (g breve), "O_" "o_"      *)
(* (o diaeresis), "U_" "u_" (u diaeresis), "nbsp" (U+00A0).                *)
(* Python indexes from 0, the model from 1.                                *)
(***************************************************************************)
EXTENDS Integers, Sequences, FiniteSets, TLC

(***************************************************************************)
(* Characters and character classes                                        *)
(***************************************************************************)
Digits == {"0", "1", "2", "3", "4", "5", "6", "7", "8", "9"}

UpperAscii ==
    {"A", "B", "C", "D", "E", "F", "G", "H", "I", "J", "K", "L", "M", "N", "O",
     "P", "Q", "R", "S", "T", "U", "V", "W", "X", "Y", "Z"}

LowerAscii ==
    {"a", "b", "c", "d", "e", "f", "g", "h", "i", "j", "k", "l", "m", "n", "o",
     "p", "q", "r", "s", "t", "u", "v", "w", "x", "y", "z"}

UpperTurkish == {"C_", "G_", "I_", "O_", "S_", "U_"}

LowerTurkish == {"c_", "g_", "i_", "o_", "s_", "u_"}

\* the characters str.splitlines() breaks a line at
LineBreakChars == {"\n", "\r", "\f"}

\* the characters \s and str.split() treat as whitespace
WhitespaceChars == {" ", "\t", "nbsp"} \cup LineBreakChars

\* the characters \w matches; \b is a boundary between \w and not \w
WordChars == Digits \cup UpperAscii \cup LowerAscii \cup UpperTurkish
                 \cup LowerTurkish \cup {"_"}

\* all characters in code point order (the order sorted() compares by)
CharOrder ==
    <<"\t", "\n", "\f", "\r", " ", ",", ".", "/",
      "0", "1", "2", "3", "4", "5", "6", "7", "8", "9",
      "A", "B", "C", "D", "E", "F", "G", "H", "I", "J", "K", "L", "M", "N", "O",
      "P", "Q", "R", "S", "T", "U", "V", "W", "X", "Y", "Z", "\\", "_",
      "a", "b", "c", "d", "e", "f", "g", "h", "i", "j", "k", "l", "m", "n", "o",
      "p", "q", "r", "s", "t", "u", "v", "w", "x", "y", "z",
      "nbsp", "C_", "O_", "U_", "c_", "o_", "u_", "G_", "g_", "I_", "i_",
      "S_", "s_">>

CodePoint(c) == CHOOSE k \in 1..Len(CharOrder) : CharOrder[k] = c

\* str.upper() on one character
UpperMap ==
    "a" :> "A" @@ "b" :> "B" @@ "c" :> "C" @@ "d" :> "D" @@ "e" :> "E" @@
    "f" :> "F" @@ "g" :> "G" @@ "h" :> "H" @@ "i" :> "I" @@ "j" :> "J" @@
    "k" :> "K" @@ "l" :> "L" @@ "m" :> "M" @@ "n" :> "N" @@ "o" :> "O" @@
    "p" :> "P" @@ "q" :> "Q" @@ "r" :> "R" @@ "s" :> "S" @@ "t" :> "T" @@
    "u" :> "U" @@ "v" :> "V" @@ "w" :> "W" @@ "x" :> "X" @@ "y" :> "Y" @@
    "z" :> "Z" @@ "c_" :> "C_" @@ "g_" :> "G_" @@ "i_" :> "I" @@
    "o_" :> "O_" @@ "s_" :> "S_" @@ "u_" :> "U_"

UpperChar(c) == IF c \in DOMAIN UpperMap THEN UpperMap[c] ELSE c

(***************************************************************************)
(* Generic helpers on sequences and sets                                   *)
(***************************************************************************)
Range(s) == {s[k] : k \in 1..Len(s)}

Slice(s, lo, hi) == IF lo > hi THEN <<>> ELSE SubSeq(s, lo, hi)

RECURSIVE Join(_, _)
\* sep.join(parts)
Join(parts, sep) ==
    IF parts = <<>> THEN <<>>
    ELSE IF Len(parts) = 1 THEN parts[1]
    ELSE parts[1] \o sep \o Join(Tail(parts), sep)

MaxOf(S) == CHOOSE m \in S : \A n \in S : n <= m

MinOf(S) == CHOOSE m \in S : \A n \in S : m <= n

\* the value Python's None; no string is equal to it
None == <<"None">>

\* the expression (x or "") for a cell that is a str or None
OrEmpty(x) == IF x = None THEN <<>> ELSE x

(***************************************************************************)
(* Text Normalizer                                                         *)
(***************************************************************************)
\* s.replace(U+00A0, " ")
ReplaceNbsp(s) == [k \in 1..Len(s) |-> IF s[k] = "nbsp" THEN " " ELSE s[k]]

\* re.sub(r"\s+", " ", s)
CollapseWhitespace(s) ==
    LET RECURSIVE go(_)
        go(k) == IF k > Len(s) THEN <<>>
                 ELSE IF s[k] \in WhitespaceChars
                      THEN (IF k > 1 /\ s[k - 1] \in WhitespaceChars
                            THEN <<>> ELSE <<" ">>) \o go(k + 1)
                      ELSE <<s[k]>> \o go(k + 1)
    IN go(1)

\* Strip that removes leading whitespace only
Strip_left(s) ==
    LET nonws == {k \in 1..Len(s) : s[k] \notin WhitespaceChars}
    IN IF nonws = {} THEN <<>> ELSE SubSeq(s, MinOf(nonws), Len(s))

\* s.strip()
Strip(s) ==
    LET nonws == {k \in 1..Len(s) : s[k] \notin WhitespaceChars}
    IN IF nonws = {} THEN <<>> ELSE SubSeq(s, MinOf(nonws), MaxOf(nonws))

_norm(s) == Strip(CollapseWhitespace(ReplaceNbsp(s)))

\* s.upper()
Upper(s) == [k \in 1..Len(s) |-> UpperChar(s[k])]

_norm_upper(s) == Upper(_norm(s))

\* s.split(): the maximal runs of non-whitespace characters
Split(s) ==
    LET RECURSIVE go(_, _)
        go(k, cur) ==
            IF k > Len(s) THEN (IF cur = <<>> THEN <<>> ELSE <<cur>>)
            ELSE IF s[k] \in WhitespaceChars
                 THEN (IF cur = <<>> THEN <<>> ELSE <<cur>>) \o go(k + 1, <<>>)
                 ELSE go(k + 1, Append(cur, s[k]))
    IN go(1, <<>>)

\* s.splitlines(): "\r\n" is one boundary, no empty last line
SplitLines(s) ==
    LET RECURSIVE go(_, _)
        go(k, cur) ==
            IF k > Len(s) THEN (IF cur = <<>> THEN <<>> ELSE <<cur>>)
            ELSE IF s[k] \in LineBreakChars
                 THEN <<cur>> \o
                      go(IF s[k] = "\r" /\ k < Len(s) /\ s[k + 1] = "\n"
                         THEN k + 2 ELSE k + 1, <<>>)
                 ELSE go(k + 1, Append(cur, s[k]))
    IN go(1, <<>>)

\* re.split(r"[...]", s) for a class of single characters seps
SplitOn(s, seps) ==
    LET RECURSIVE go(_, _)
        go(k, cur) ==
            IF k > Len(s) THEN <<cur>>
            ELSE IF s[k] \in seps THEN <<cur>> \o go(k + 1, <<>>)
                 ELSE go(k + 1, Append(cur, s[k]))
    IN go(1, <<>>)

\* s.replace(",", " ")
ReplaceComma(s) == [k \in 1..Len(s) |-> IF s[k] = "," THEN " " ELSE s[k]]

\* re.search(r"\bw\b", s) for a literal word w
SearchWord(s, w) ==
    \E k \in 1..(Len(s) - Len(w) + 1) :
        /\ SubSeq(s, k, k + Len(w) - 1) = w
        /\ (k = 1 \/ s[k - 1] \notin WordChars)
        /\ (k + Len(w) - 1 = Len(s) \/ s[k + Len(w)] \notin WordChars)

\* the order of str comparison: by code point, a proper prefix first
RECURSIVE StrLess(_, _)
StrLess(a, b) ==
    IF b = <<>> THEN FALSE
    ELSE IF a = <<>> THEN TRUE
    ELSE IF a[1] = b[1] THEN StrLess(Tail(a), Tail(b))
    ELSE CodePoint(a[1]) < CodePoint(b[1])

RECURSIVE SortedSeq(_)
\* tuple(sorted(S)) for a set of strings
SortedSeq(S) ==
    IF S = {} THEN <<>>
    ELSE LET m == CHOOSE x \in S : \A y \in S \ {x} : StrLess(x, y)
         IN <<m>> \o SortedSeq(S \ {m})

(***************************************************************************)
(* Fuzzy Matcher: difflib.SequenceMatcher(None, a, b).ratio()              *)
(* (no junk: the automatic junk heuristic needs len(b) >= 200)             *)
(***************************************************************************)
RECURSIVE CommonPrefixLen(_, _, _, _, _, _)
\* length of the longest common prefix of a[i..ahi] and b[j..bhi]
CommonPrefixLen(a, b, i, j, ahi, bhi) ==
    IF i > ahi \/ j > bhi \/ a[i] # b[j] THEN 0
    ELSE 1 + CommonPrefixLen(a, b, i + 1, j + 1, ahi, bhi)

\* find_longest_match: the longest block a[i..i+k-1] = b[j..j+k-1] inside
\* a[alo..ahi], b[blo..bhi]; of the longest the one starting earliest in a,
\* and of those the one starting earliest in b
find_longest_match(a, b, alo, ahi, blo, bhi) ==
    LET k(i, j) == CommonPrefixLen(a, b, i, j, ahi, bhi)
        best == MaxOf({k(i, j) : i \in alo..ahi, j \in blo..bhi})
        bi == MinOf({i \in alo..ahi : \E j \in blo..bhi : k(i, j) = best})
        bj == MinOf({j \in blo..bhi : k(bi, j) = best})
    IN [i |-> bi, j |-> bj, size |-> best]

RECURSIVE MatchingTotal(_, _, _, _, _, _)
\* get_matching_blocks: the sum of the sizes of the matching blocks; the
\* block m is the longest one, the rest lies to its left and to its right
MatchingAround(a, b, alo, ahi, blo, bhi, m) ==
    IF m.size = 0 THEN 0
    ELSE m.size
         + MatchingTotal(a, b, alo, m.i - 1, blo, m.j - 1)
         + MatchingTotal(a, b, m.i + m.size, ahi, m.j + m.size, bhi)

MatchingTotal(a, b, alo, ahi, blo, bhi) ==
    IF alo > ahi \/ blo > bhi THEN 0
    ELSE MatchingAround(a, b, alo, ahi, blo, bhi,
                        find_longest_match(a, b, alo, ahi, blo, bhi))

\* _similar(a, b) = 2.0 * matches / (len(a) + len(b)), 1.0 when both are
\* empty, kept as the exact fraction num / den
_similar(a, b) ==
    IF Len(a) + Len(b) = 0 THEN [num |-> 1, den |-> 1]
    ELSE [num |-> 2 * MatchingTotal(a, b, 1, Len(a), 1, Len(b)),
          den |-> Len(a) + Len(b)]

\* score > best_score on two fractions
ScoreGreater(x, y) == x.num * y.den > y.num * x.den

\* the acceptance threshold 0.60 as the fraction ThresholdNum / ThresholdDen
ThresholdNum == 60

ThresholdDen == 100

\* AtLeast with the comparison turned round: score <= threshold
AtLeast_at_most(x, tnum, tden) == x.num * tden <= tnum * x.den

\* score >= threshold, the threshold the fraction tnum / tden
AtLeast(x, tnum, tden) == x.num * tden >= tnum * x.den

\* best_score >= 0.60
AtLeastThreshold(x) == AtLeast(x, ThresholdNum, ThresholdDen)

ZeroScore == [num |-> 0, den |-> 1]

(***************************************************************************)
(* Program constants                                                       *)
(***************************************************************************)
DAY_NAMES ==
    << <<"P", "a", "z", "a", "r", "t", "e", "s", "i">>,
       <<"S", "a", "l", "i_">>,
       <<"C_", "a", "r", "s_", "a", "m", "b", "a">>,
       <<"P", "e", "r", "s_", "e", "m", "b", "e">>,
       <<"C", "u", "m", "a">>,
       <<"C", "u", "m", "a", "r", "t", "e", "s", "i">>,
       <<"P", "a", "z", "a", "r">> >>

\* DAY_NAMES[:5]
WEEK_DAYS == SubSeq(DAY_NAMES, 1, 5)

WeekDaySet == Range(WEEK_DAYS)

BLACKLIST_TEACHER_NAMES ==
    { <<"M", "N", "I_", "U", "Y", "H", "A", "A", "Z", "S", "I_", " ",
        "E", "E", "B", "R", "E", "C", " ", "A", "L", "A", "N", "B">> }

\* the column titles of the legend table
ColDersinAdi == <<"D", "e", "r", "s", "i", "n", " ", "A", "d", "i_">>

ColDersinOgretmeni ==
    <<"D", "e", "r", "s", "i", "n", " ", "O_", "g_", "r", "e", "t", "m", "e",
      "n", "i">>

ColYer == <<"Y", "e", "r">>

\* the room keywords
WordLAB == <<"L", "A", "B">>

WordSINIF == <<"S", "I", "N", "I", "F">>

WordDERSLIK_dotted == <<"D", "E", "R", "S", "L", "I_", "K">>

WordDERSLIK_plain == <<"D", "E", "R", "S", "L", "I", "K">>

WordATOLYE == <<"A", "T", "O_", "L", "Y", "E">>

\* the default of the parameter max_periods
max_periods == 9

\* a column index that stands for "no such column" (Python's None)
NoCol == 0

(***************************************************************************)
(* Catalog Builder                                                         *)
(***************************************************************************)
CatalogFields == {"lesson_names", "raw_by_norm", "teacher_words", "location_words"}

\* what a call that raises evaluates to
TypeError == [exception |-> "TypeError"]

IsException(v) == v = TypeError

\* the constructor of the frozen dataclass: none of its four fields has a
\* default, so a call that leaves one out raises TypeError
LessonCatalog(args) ==
    IF CatalogFields \subseteq DOMAIN args THEN args ELSE TypeError

\* header = [_norm(c or "") for c in bottom[0]]
HeaderOf(bottom) == [k \in 1..Len(bottom[1]) |-> _norm(OrEmpty(bottom[1][k]))]

\* col_map = {h: i for i, h in enumerate(header) if h}; get_col(title):
\* a later column with the same title replaces an earlier one
get_col(header, title) ==
    LET hits == {k \in 1..Len(header) : header[k] = title /\ header[k] # <<>>}
    IN IF hits = {} THEN NoCol ELSE MaxOf(hits)

\* the words w of a str with len(w) >= 2
LongWords(s) == {w \in Range(Split(s)) : Len(w) >= 2}

\* RawLesson with the legend cell taken as it is
RawLesson_unnormalised(cell) == OrEmpty(cell)

\* raw_lesson = _norm(row[idx_lesson] or "")
RawLesson(cell) == _norm(OrEmpty(cell))

\* RawKey with the legend's own spelling as the key
RawKey_raw(ln, raw_lesson) == raw_lesson

\* the key of raw_by_norm.setdefault(ln, raw_lesson)
RawKey(ln, raw_lesson) == ln

\* SetDefault as the assignment d[key] = value: the last value stays
SetDefault_overwrite(d, key, value) ==
    [k \in DOMAIN d \cup {key} |-> IF k = key THEN value ELSE d[k]]

\* d.setdefault(key, value): the value a key has already stays
SetDefault(d, key, value) ==
    IF key \in DOMAIN d THEN d ELSE d @@ (key :> value)

\* one iteration of the loop over bottom[1:]
CatalogRow(acc, row, idx_lesson, idx_teacher, idx_loc) ==
    IF row = <<>> THEN acc
    ELSE
    LET hasL == idx_lesson # NoCol /\ idx_lesson <= Len(row)
        raw_lesson == RawLesson(row[idx_lesson])
        ln == _norm_upper(raw_lesson)
        hasT == idx_teacher # NoCol /\ idx_teacher <= Len(row)
        t == ReplaceComma(_norm_upper(OrEmpty(row[idx_teacher])))
        hasP == idx_loc # NoCol /\ idx_loc <= Len(row)
        loc == _norm_upper(OrEmpty(row[idx_loc]))
    IN [lesson_norms |->
            IF hasL /\ ln # <<>> THEN acc.lesson_norms \cup {ln}
            ELSE acc.lesson_norms,
        raw_by_norm |->
            IF hasL /\ ln # <<>>
            THEN SetDefault(acc.raw_by_norm, RawKey(ln, raw_lesson), raw_lesson)
            ELSE acc.raw_by_norm,
        teacher_words |->
            IF hasT THEN acc.teacher_words \cup LongWords(t)
            ELSE acc.teacher_words,
        location_words |->
            IF hasP THEN acc.location_words \cup LongWords(loc)
            ELSE acc.location_words]

RECURSIVE CatalogRows(_, _, _, _, _, _)
\* the loop over bottom[1:], rows k..len(bottom)
CatalogRows(acc, bottom, k, idx_lesson, idx_teacher, idx_loc) ==
    IF k > Len(bottom) THEN acc
    ELSE CatalogRows(CatalogRow(acc, bottom[k], idx_lesson, idx_teacher, idx_loc),
                     bottom, k + 1, idx_lesson, idx_teacher, idx_loc)

EmptyFunction == [x \in {} |-> x]

\* the return statement of extract_catalog_from_bottom_table, the room
\* keywords added to the location words
CatalogReturn(acc) ==
    LessonCatalog(
        [lesson_names |-> SortedSeq(acc.lesson_norms),
         raw_by_norm |-> acc.raw_by_norm,
         teacher_words |-> acc.teacher_words,
         location_words |-> acc.location_words
             \cup {WordLAB, WordSINIF, WordDERSLIK_dotted, WordATOLYE}])

\* extract_catalog_from_bottom_table once the header is read
CatalogOfTable(bottom, header) ==
    CatalogReturn(
        CatalogRows([lesson_norms |-> {}, raw_by_norm |-> EmptyFunction,
                     teacher_words |-> {}, location_words |-> {}],
                    bottom, 2,
                    get_col(header, ColDersinAdi),
                    get_col(header, ColDersinOgretmeni),
                    get_col(header, ColYer)))

\* tables[-1], <<>> when there is no table
BottomTable(page) ==
    IF page.tables = <<>> THEN <<>> ELSE page.tables[Len(page.tables)]

\* the early returns: no table, or a last table of fewer than two rows
NoLegend(page) ==
    page.tables = <<>> \/ BottomTable(page) = <<>> \/ Len(BottomTable(page)) < 2

extract_catalog_from_bottom_table(page) ==
    IF NoLegend(page)
    THEN LessonCatalog([lesson_names |-> <<>>, teacher_words |-> {},
                        location_words |-> {}])
    ELSE CatalogOfTable(BottomTable(page), HeaderOf(BottomTable(page)))

\* if score > best_score: best_score = score; best_name = name
KeepBetter(name, score, best) ==
    IF ScoreGreater(score, best.score) THEN [name |-> name, score |-> score]
    ELSE best

RECURSIVE BestLessonFrom(_, _, _, _)
\* the loop of best_lesson_match over lesson_names[k..]
BestLessonFrom(lesson_names, k, cand, best) ==
    IF k > Len(lesson_names) THEN best
    ELSE BestLessonFrom(lesson_names, k + 1, cand,
                        KeepBetter(lesson_names[k],
                                   _similar(cand, lesson_names[k]), best))

BestLessonLoop(lesson_names, k, cand, best_name, best_score) ==
    BestLessonFrom(lesson_names, k, cand,
                   [name |-> best_name, score |-> best_score])

\* the end of best_lesson_match: the best name, in its original spelling,
\* when its score reaches the threshold
AcceptLesson(best, raw_by_norm) ==
    IF best.name # None /\ best.name # <<>> /\ AtLeastThreshold(best.score)
    THEN IF best.name \in DOMAIN raw_by_norm
         THEN raw_by_norm[best.name] ELSE best.name
    ELSE None

\* best_lesson_match after cand = _norm_upper(candidate)
BestLessonFor(catalog, cand) ==
    IF cand = <<>> THEN None
    ELSE AcceptLesson(BestLessonLoop(catalog.lesson_names, 1, cand, None,
                                     ZeroScore),
                      catalog.raw_by_norm)

\* LessonCatalog.best_lesson_match; None when there is no match
best_lesson_match(catalog, candidate) ==
    BestLessonFor(catalog, _norm_upper(candidate))

(***************************************************************************)
(* Cell Classifier and lesson resolution                                   *)
(***************************************************************************)
\* sum(1 for w in words if w in vocabulary)
KnownCount(words, vocabulary) ==
    Cardinality({k \in 1..Len(words) : words[k] \in vocabulary})

\* _is_probably_teacher_line after words = up.split()
TeacherWordsLine(words, catalog) ==
    IF words = <<>> THEN FALSE
    ELSE /\ KnownCount(words, catalog.teacher_words) = Len(words)
         /\ Len(words) <= 4

\* _is_probably_teacher_line after up = _norm_upper(line)
TeacherLineUp(up, catalog) ==
    IF up = <<>> THEN FALSE ELSE TeacherWordsLine(Split(up), catalog)

_is_probably_teacher_line(line, catalog) ==
    TeacherLineUp(_norm_upper(line), catalog)

\* LocationThreshold without max(1, ...)
LocationThreshold_unclamped(n) == n - 1

\* the threshold max(1, len(words) - 1) of the location rule
LocationThreshold(n) == IF n - 1 > 1 THEN n - 1 ELSE 1

\* _is_probably_location_line after words = up.split()
LocationWordsLine(words, catalog) ==
    IF words = <<>> THEN FALSE
    ELSE /\ KnownCount(words, catalog.location_words)
                >= LocationThreshold(Len(words))
         /\ Len(words) <= 6

\* _is_probably_location_line after up = _norm_upper(line)
LocationLineUp(up, catalog) ==
    IF up = <<>> THEN FALSE
    ELSE IF SearchWord(up, WordLAB) THEN TRUE
    ELSE LocationWordsLine(Split(up), catalog)

_is_probably_location_line(line, catalog) ==
    LocationLineUp(_norm_upper(line), catalog)

\* [_norm(l) for l in raw]
NormEach(raw) == [k \in 1..Len(raw) |-> _norm(raw[k])]

\* lines = [_norm(l) for l in str(cell_text).splitlines()], the empty dropped
CellLines(cell_text) ==
    SelectSeq(NormEach(SplitLines(cell_text)), LAMBDA l : l # <<>>)

\* the positions of the teacher lines and location lines
BreakLines(lines, catalog) ==
    {k \in 1..Len(lines) : \/ _is_probably_teacher_line(lines[k], catalog)
                           \/ _is_probably_location_line(lines[k], catalog)}

\* LinesBefore with continue in place of break: every line that is no break
LinesBefore_skip_breaks(lines, breaks) ==
    SelectSeq(lines, LAMBDA l : \A k \in breaks : lines[k] # l)

\* the lines before the first of the positions breaks
LinesBefore(lines, breaks) ==
    IF breaks = {} THEN lines ELSE Slice(lines, 1, MinOf(breaks) - 1)

\* the scan: the lines before the first teacher line or location line
KeptLines(lines, catalog) == LinesBefore(lines, BreakLines(lines, catalog))

\* KeptOrFallback without the fallback to the first lines
KeptOrFallback_kept_only(kept, lines) == kept

\* if not kept: kept = lines[:2]
KeptOrFallback(kept, lines) ==
    IF kept = <<>> THEN Slice(lines, 1, MinOf({2, Len(lines)})) ELSE kept

\* candidate = _norm(" ".join(kept))
CandidateOf(lines, catalog) ==
    _norm(Join(KeptOrFallback(KeptLines(lines, catalog), lines), <<" ">>))

\* re.fullmatch(r"[0-9]+", w)
IsNumber(w) == w # <<>> /\ \A k \in 1..Len(w) : w[k] \in Digits

\* the words of the candidate that are no teacher word, location word, number
CleanedWords(candidate, catalog) ==
    SelectSeq(Split(_norm_upper(candidate)),
              LAMBDA w : /\ w \notin catalog.teacher_words
                         /\ w \notin catalog.location_words
                         /\ ~IsNumber(w))

\* the three return statements after the candidate is known; path names
\* the one taken
LessonNameReturn(match, cleaned_words, candidate) ==
    IF match \notin {None, <<>>} THEN [path |-> "match", value |-> match]
    ELSE IF cleaned_words # <<>>
         THEN [path |-> "cleaned", value |-> Join(cleaned_words, <<" ">>)]
         ELSE [path |-> "candidate", value |-> candidate]

\* extract_lesson_name_from_cell from the candidate on
LessonNameOfCandidate(candidate, catalog) ==
    LessonNameReturn(best_lesson_match(catalog, candidate),
                     CleanedWords(candidate, catalog), candidate)

\* extract_lesson_name_from_cell from the non-empty lines on
LessonNameOfLines(lines, catalog) ==
    IF lines = <<>> THEN [path |-> "empty", value |-> <<>>]
    ELSE LessonNameOfCandidate(CandidateOf(lines, catalog), catalog)

\* the result of extract_lesson_name_from_cell with the return statement taken
LessonNameResult(cell_text, catalog) ==
    IF cell_text = <<>> THEN [path |-> "empty", value |-> <<>>]
    ELSE LessonNameOfLines(CellLines(cell_text), catalog)

extract_lesson_name_from_cell(cell_text, catalog) ==
    LessonNameResult(cell_text, catalog).value

(***************************************************************************)
(* Teacher Identity Resolver                                               *)
(***************************************************************************)
\* re.search(r"\b(LAB|SINIF|DERSL[İI]K|ATÖLYE)\b", up)
HasRoomKeyword(up) ==
    \E w \in {WordLAB, WordSINIF, WordDERSLIK_dotted, WordDERSLIK_plain,
              WordATOLYE} : SearchWord(up, w)

\* re.fullmatch(r"[A-ZÇĞİÖŞÜ\s]+", up)
OnlyUpperLettersAndSpace(up) ==
    /\ up # <<>>
    /\ \A k \in 1..Len(up) :
           up[k] \in UpperAscii \cup UpperTurkish \cup WhitespaceChars

\* _is_probable_full_teacher_name after up = _norm_upper(name)
ProbableFullNameUp(up) ==
    /\ up # <<>>
    /\ up \notin BLACKLIST_TEACHER_NAMES
    /\ \A k \in 1..Len(up) : up[k] \notin Digits
    /\ ~HasRoomKeyword(up)
    /\ \E k \in 1..Len(up) : up[k] = " "
    /\ OnlyUpperLettersAndSpace(up)
    /\ Len(up) >= 5

_is_probable_full_teacher_name(name) == ProbableFullNameUp(_norm_upper(name))

\* parts[-1], <<>> when there is no part
LastOf(parts) == IF parts = <<>> THEN <<>> ELSE parts[Len(parts)]

\* the last word of a pool name, <<>> when the name has no word
SurnameOf(name) == LastOf(Split(_norm_upper(name)))

\* candidates_by_surname: the pool names, the denylisted left out, whose last
\* word is one of the words of the candidate
CandidatesBySurname(cand_norm, known_names) ==
    {name \in Range(known_names) :
        /\ name \notin BLACKLIST_TEACHER_NAMES
        /\ SurnameOf(name) # <<>>
        /\ SurnameOf(name) \in Range(Split(cand_norm))}

RECURSIVE BestTeacherLoop(_, _, _, _)
\* the fuzzy loop of _best_teacher_name_match over the pool, in the pool's
\* iteration order
BestTeacherLoop(known_names, k, cand_norm, best) ==
    IF k > Len(known_names) THEN best
    ELSE BestTeacherLoop(
           known_names, k + 1, cand_norm,
           IF known_names[k] \in BLACKLIST_TEACHER_NAMES THEN best
           ELSE KeepBetter(known_names[k],
                           _similar(cand_norm, _norm_upper(known_names[k])),
                           best))

\* if best_name and best_score >= 0.60: return best_name
AcceptTeacher(best) ==
    IF best.name # None /\ best.name # <<>> /\ AtLeastThreshold(best.score)
    THEN best.name ELSE None

\* step 2 of _best_teacher_name_match
FuzzyTeacherMatch(cand_norm, known_names) ==
    AcceptTeacher(BestTeacherLoop(known_names, 1, cand_norm,
                                  [name |-> None, score |-> ZeroScore]))

\* SurnameDecides with step 1 of _best_teacher_name_match left out
SurnameDecides_never(candidates_by_surname) == FALSE

\* if len(candidates_by_surname) == 1
SurnameDecides(candidates_by_surname) == Cardinality(candidates_by_surname) = 1

\* the two steps of _best_teacher_name_match once candidates_by_surname is known
MatchBySurnameThenFuzzy(candidates_by_surname, cand_norm, known_names) ==
    IF SurnameDecides(candidates_by_surname)
    THEN CHOOSE n \in candidates_by_surname : TRUE
    ELSE FuzzyTeacherMatch(cand_norm, known_names)

\* _best_teacher_name_match after cand_norm = _norm_upper(candidate)
BestTeacherFor(cand_norm, known_names) ==
    IF cand_norm = <<>> THEN None
    ELSE MatchBySurnameThenFuzzy(CandidatesBySurname(cand_norm, known_names),
                                 cand_norm, known_names)

\* known_names is the pool as the sequence a loop over the set visits
_best_teacher_name_match(candidate, known_names) ==
    BestTeacherFor(_norm_upper(candidate), known_names)

\* the character class of re.split(r"[,\\n]", ...) in
\* collect_known_teacher_names: a comma, a backslash, the letter n
PoolSeparators == {",", "\\", "n"}

\* the character class of re.split(r"[,\n]", ...) in extract_lesson_teacher_map
MapSeparators == {",", "\n"}

\* str(row[idx_teacher] or "") of the rows that have the teacher column
TeacherCellsAt(bottom, idx_teacher) ==
    IF idx_teacher = NoCol THEN {}
    ELSE {OrEmpty(bottom[k][idx_teacher]) :
             k \in {r \in 2..Len(bottom) :
                       bottom[r] # <<>> /\ idx_teacher <= Len(bottom[r])}}

\* the teacher cells of the legend of a page: none when the page is skipped
TeacherColumnCells(page) ==
    IF NoLegend(page) THEN {}
    ELSE TeacherCellsAt(BottomTable(page),
                        get_col(HeaderOf(BottomTable(page)), ColDersinOgretmeni))

\* PoolNamesOfCell without the test of _is_probable_full_teacher_name
PoolNamesOfCell_unfiltered(raw_teachers) ==
    {_norm(part) : part \in Range(SplitOn(raw_teachers, PoolSeparators))} \ {<<>>}

\* the parts of one teacher cell that the pool takes
PoolNamesOfCell(raw_teachers) ==
    {name \in {_norm(part) : part \in Range(SplitOn(raw_teachers, PoolSeparators))} :
        name # <<>> /\ _is_probable_full_teacher_name(name)}

\* the names one page adds to the pool: one iteration of the loop over
\* pdf.pages in collect_known_teacher_names
PageTeacherNames(page) ==
    UNION {PoolNamesOfCell(cell) : cell \in TeacherColumnCells(page)}

(***************************************************************************)
(* Lesson -> teachers map of one page                                      *)
(***************************************************************************)
\* ResolvedName with a name that has no match kept as it is written
ResolvedName_keep_unmatched(name, known_teacher_names) ==
    IF known_teacher_names # <<>>
    THEN IF _best_teacher_name_match(name, known_teacher_names) \in {None, <<>>}
         THEN {name}
         ELSE {_best_teacher_name_match(name, known_teacher_names)}
    ELSE IF _is_probable_full_teacher_name(name) THEN {name} ELSE {}

\* the teachers one name of a legend teacher cell stands for
ResolvedName(name, known_teacher_names) ==
    IF known_teacher_names # <<>>
    THEN {_best_teacher_name_match(name, known_teacher_names)} \ {None, <<>>}
    ELSE IF _is_probable_full_teacher_name(name) THEN {name} ELSE {}

\* the teachers one legend teacher cell adds for its lesson
ResolvedTeachers(raw_teachers, known_teacher_names) ==
    UNION {ResolvedName(name, known_teacher_names) :
              name \in {_norm(part) :
                           part \in Range(SplitOn(raw_teachers, MapSeparators))}
                       \ {<<>>}}

\* the (lesson_norm, teachers) pairs of the legend rows that name a lesson
LessonTeacherRows(bottom, idx_lesson, idx_teacher, known_teacher_names) ==
    {<<_norm_upper(_norm(OrEmpty(bottom[k][idx_lesson]))),
       ResolvedTeachers(OrEmpty(bottom[k][idx_teacher]), known_teacher_names)>> :
        k \in {r \in 2..Len(bottom) :
                  /\ bottom[r] # <<>>
                  /\ idx_lesson <= Len(bottom[r])
                  /\ idx_teacher <= Len(bottom[r])
                  /\ _norm(OrEmpty(bottom[r][idx_lesson])) # <<>>}}

\* lesson_teachers.setdefault(lesson_norm, set()).add(best) over all the rows:
\* a key exists once a teacher was added for it
LessonTeachersOf(pairs) ==
    [key \in {pr[1] : pr \in {q \in pairs : q[2] # {}}} |->
        UNION {pr[2] : pr \in {q \in pairs : q[1] = key}}]

\* extract_lesson_teacher_map once the two columns are located
LessonTeacherMapAt(bottom, idx_lesson, idx_teacher, known_teacher_names) ==
    IF idx_lesson = NoCol \/ idx_teacher = NoCol THEN EmptyFunction
    ELSE LessonTeachersOf(LessonTeacherRows(bottom, idx_lesson, idx_teacher,
                                            known_teacher_names))

\* extract_lesson_teacher_map once the header is read
LessonTeacherMapOf(bottom, header, known_teacher_names) ==
    LessonTeacherMapAt(bottom, get_col(header, ColDersinAdi),
                       get_col(header, ColDersinOgretmeni), known_teacher_names)

extract_lesson_teacher_map(page, catalog, known_teacher_names) ==
    IF NoLegend(page) THEN EmptyFunction
    ELSE LessonTeacherMapOf(BottomTable(page), HeaderOf(BottomTable(page)),
                            known_teacher_names)

(***************************************************************************)
(* Schedule Builder                                                        *)
(***************************************************************************)
\* the first extracted table is the week grid
extract_week_table(page) ==
    IF page.tables = <<>> THEN <<>> ELSE page.tables[1]

\* IsWeekdayRow with the label looked up in DAY_NAMES, not in WEEK_DAYS
IsWeekdayRow_all_days(row) ==
    /\ row # <<>>
    /\ OrEmpty(row[1]) # <<>>
    /\ _norm(row[1]) \in Range(DAY_NAMES)

\* the test both builders make on a grid row before they use it
IsWeekdayRow(row) ==
    /\ row # <<>>
    /\ OrEmpty(row[1]) # <<>>
    /\ _norm(row[1]) \in WeekDaySet

\* LessonsOfCells on the first max_periods cells only
LessonsOfCells_nine(cells, catalog) ==
    [k \in 1..MinOf({Len(cells), max_periods}) |->
        extract_lesson_name_from_cell(OrEmpty(cells[k]), catalog)]

\* [extract_lesson_name_from_cell(c or "", catalog) for c in cells]
LessonsOfCells(cells, catalog) ==
    [k \in 1..Len(cells) |->
        extract_lesson_name_from_cell(OrEmpty(cells[k]), catalog)]

\* SimplifiedRow with the blank results kept
SimplifiedRow_keep_blanks(row, catalog) ==
    <<_norm(row[1]), LessonsOfCells(Tail(row), catalog)>>

\* one (day, lessons) entry of make_simplified_schedule
SimplifiedRow(row, catalog) ==
    <<_norm(row[1]),
      SelectSeq(LessonsOfCells(Tail(row), catalog), LAMBDA l : _norm(l) # <<>>)>>

\* simplified.append((day, lessons)) for every row taken
SimplifiedRows(rows, catalog) ==
    [k \in 1..Len(rows) |-> SimplifiedRow(rows[k], catalog)]

make_simplified_schedule(week_table, catalog) ==
    SimplifiedRows(SelectSeq(week_table, IsWeekdayRow), catalog)

\* Skeleton with range(1, max_periods): the last period left out
Skeleton_short ==
    [day \in WeekDaySet |-> [p \in 1..(max_periods - 1) |-> <<>>]]

\* the skeleton ensure_teacher gives a new teacher
Skeleton == [day \in WeekDaySet |-> [p \in 1..max_periods |-> <<>>]]

ensure_teacher(teacher_schedules, teacher) ==
    IF teacher \in DOMAIN teacher_schedules THEN teacher_schedules
    ELSE teacher_schedules @@ (teacher :> Skeleton)

\* AppendForTeachers with list.insert(0, entry) in place of append
AppendForTeachers_front(teacher_schedules, teachers, day, idx, entry) ==
    [t \in DOMAIN teacher_schedules \cup teachers |->
        IF t \in teachers
        THEN [ensure_teacher(teacher_schedules, t)[t]
                  EXCEPT ![day][idx] = <<entry>> \o @]
        ELSE teacher_schedules[t]]

\* ensure_teacher(t); teacher_schedules[t][day][idx].append(entry), for every
\* t of teachers
AppendForTeachers(teacher_schedules, teachers, day, idx, entry) ==
    [t \in DOMAIN teacher_schedules \cup teachers |->
        IF t \in teachers
        THEN [ensure_teacher(teacher_schedules, t)[t]
                  EXCEPT ![day][idx] = Append(@, entry)]
        ELSE teacher_schedules[t]]

\* lesson_teachers.get(lesson_key, set())
TeachersOfKey(lesson_teachers, lesson_key) ==
    IF lesson_key \in DOMAIN lesson_teachers THEN lesson_teachers[lesson_key]
    ELSE {}

\* the end of the loop body: for t in teachers ...
TeacherCellAppend(teacher_schedules, day, idx, teachers, matched, class_name) ==
    IF teachers = {} THEN teacher_schedules
    ELSE AppendForTeachers(teacher_schedules, teachers, day, idx,
                           <<matched, class_name>>)

\* the loop body once matched is known
TeacherCellMatched(teacher_schedules, day, idx, matched, lesson_teachers, class_name) ==
    TeacherCellAppend(teacher_schedules, day, idx,
                      TeachersOfKey(lesson_teachers, _norm_upper(matched)),
                      matched, class_name)

\* catalog.best_lesson_match(lesson_name) or lesson_name
MatchedOr(m, lesson_name) == IF m \in {None, <<>>} THEN lesson_name ELSE m

\* the loop body once the lesson name of the cell is known
TeacherCellNamed(teacher_schedules, day, idx, lesson_name, catalog, lesson_teachers, class_name) ==
    IF _norm(lesson_name) = <<>> THEN teacher_schedules
    ELSE TeacherCellMatched(teacher_schedules, day, idx,
                            MatchedOr(best_lesson_match(catalog, lesson_name),
                                      lesson_name),
                            lesson_teachers, class_name)

\* the body of the loop over the cells of a row, for the cell of period idx
TeacherCell(teacher_schedules, day, idx, cell, catalog, lesson_teachers, class_name) ==
    TeacherCellNamed(teacher_schedules, day, idx,
                     extract_lesson_name_from_cell(OrEmpty(cell), catalog),
                     catalog, lesson_teachers, class_name)

RECURSIVE TeacherCells(_, _, _, _, _, _, _)
\* the loop over cells = row[1 : 1 + max_periods], from period idx on
TeacherCells(teacher_schedules, row, idx, day, catalog, lesson_teachers, class_name) ==
    IF idx > max_periods \/ idx + 1 > Len(row) THEN teacher_schedules
    ELSE TeacherCells(TeacherCell(teacher_schedules, day, idx, row[idx + 1],
                                  catalog, lesson_teachers, class_name),
                      row, idx + 1, day, catalog, lesson_teachers, class_name)

RECURSIVE TeacherRows(_, _, _, _, _, _)
\* the loop over the rows of the week table, from row k on
TeacherRows(teacher_schedules, week_table, k, catalog, lesson_teachers, class_name) ==
    IF k > Len(week_table) THEN teacher_schedules
    ELSE TeacherRows(
           IF IsWeekdayRow(week_table[k])
           THEN TeacherCells(teacher_schedules, week_table[k], 1,
                             _norm(week_table[k][1]), catalog, lesson_teachers,
                             class_name)
           ELSE teacher_schedules,
           week_table, k + 1, catalog, lesson_teachers, class_name)

build_teacher_schedules(week_table, catalog, lesson_teachers, class_name) ==
    TeacherRows(EmptyFunction, week_table, 1, catalog, lesson_teachers,
                class_name)

(***************************************************************************)
(* Schedule Merger                                                         *)
(***************************************************************************)
\* MergeInto with the entries of the source put in place of the target's
MergeInto_replace(existing, by_day) ==
    [day \in DOMAIN existing \cup DOMAIN by_day |->
        IF day \notin DOMAIN by_day THEN existing[day]
        ELSE [p \in DOMAIN existing[day] \cup DOMAIN by_day[day] |->
                 IF p \in DOMAIN by_day[day] /\ by_day[day][p] # <<>>
                 THEN by_day[day][p] ELSE existing[day][p]]]

\* the else branch of the merge loop: the teacher is in the target already
MergeInto(existing, by_day) ==
    [day \in DOMAIN existing \cup DOMAIN by_day |->
        IF day \notin DOMAIN by_day THEN existing[day]
        ELSE LET ex_periods == IF day \in DOMAIN existing THEN existing[day]
                               ELSE EmptyFunction
                 periods == by_day[day]
                 filled == {p \in DOMAIN periods : periods[p] # <<>>}
             IN [p \in DOMAIN ex_periods \cup filled |->
                    IF p \notin filled THEN ex_periods[p]
                    ELSE (IF p \in DOMAIN ex_periods THEN ex_periods[p]
                          ELSE <<>>) \o periods[p]]]

\* the merge loop of _process_uploaded_pdf_impl, of main in app.py and of
\* main in extract_simplified_schedule.py (the three are the same code)
merge_teacher_schedules(target, source) ==
    [teacher \in DOMAIN target \cup DOMAIN source |->
        IF teacher \notin DOMAIN source THEN target[teacher]
        ELSE IF teacher \notin DOMAIN target THEN source[teacher]
        ELSE MergeInto(target[teacher], source[teacher])]

(***************************************************************************)
(* Class name of a page                                                    *)
(***************************************************************************)
\* re.search(r"\b([0-9]+/[A-ZÇĞİÖŞÜ])\b", page_text): the start and the end
\* of every match candidate, leftmost first
ClassNameMatches(page_text) ==
    {m \in (1..Len(page_text)) \X (1..Len(page_text)) :
        /\ m[1] + 2 <= m[2]
        /\ (m[1] = 1 \/ page_text[m[1] - 1] \notin WordChars)
        /\ \A k \in m[1]..(m[2] - 2) : page_text[k] \in Digits
        /\ page_text[m[2] - 1] = "/"
        /\ page_text[m[2]] \in UpperAscii \cup UpperTurkish
        /\ (m[2] = Len(page_text) \/ page_text[m[2] + 1] \notin WordChars)}

RECURSIVE DecimalStr(_)
\* str(n) for n >= 0
DecimalStr(n) ==
    LET d == <<"0", "1", "2", "3", "4", "5", "6", "7", "8", "9">>[(n % 10) + 1]
    IN IF n < 10 THEN <<d>> ELSE Append(DecimalStr(n \div 10), d)

\* m.group(1) if m else fallback, for the leftmost of the matches ms
FirstMatchOr(page_text, ms, fallback) ==
    IF ms = {} THEN fallback
    ELSE SubSeq(page_text, MinOf({m[1] : m \in ms}),
                MinOf({m[2] : m \in ms}))

parse_class_name(page_text, fallback) ==
    FirstMatchOr(page_text, ClassNameMatches(page_text), fallback)

\* f"Sayfa {i+1}" for the page at position i of the model (1-based)
PageFallbackName(i) == <<"S", "a", "y", "f", "a", " ">> \o DecimalStr(i)

(***************************************************************************)
(* Input documents                                                         *)
(***************************************************************************)
sMATEMATIK == <<"M", "A", "T", "E", "M", "A", "T", "I_", "K">>

sFIZIK == <<"F", "I_", "Z", "I_", "K">>

sAHMET_YILMAZ == <<"A", "H", "M", "E", "T", " ", "Y", "I", "L", "M", "A", "Z">>

sELIF_KAYA == <<"E", "L", "I_", "F", " ", "K", "A", "Y", "A">>

sCAN_KAYA == <<"C", "A", "N", " ", "K", "A", "Y", "A">>

\* a truncated teacher name, as legends of later pages carry it
sA_YILMAZ == <<"A", ".", " ", "Y", "I", "L", "M", "A", "Z">>

sPazartesi == DAY_NAMES[1]

LegendHeader == <<ColDersinAdi, ColDersinOgretmeni, ColYer>>

\* the legend and the grid of the end-to-end scenario
LegendA == <<LegendHeader, <<sMATEMATIK, sAHMET_YILMAZ, <<"1", "0", "1">> >> >>

CellA == sMATEMATIK \o <<"\n">> \o sAHMET_YILMAZ \o <<"\n", "1", "0", "1">>

GridA == << <<sPazartesi, CellA, <<>>, <<>>, None, <<>>, <<>>, <<>>, <<>>, <<>> >> >>

PageA == [tables |-> <<GridA, LegendA>>, text |-> <<"9", "/", "A">>]

\* a page of another class: a header row, a weekday row with ten period
\* cells, a weekday row with a padded label, two weekend rows; its legend has
\* a leading column and a truncated teacher name
LegendB ==
    << <<<<"S", ".", "N", "o">>, ColDersinAdi, ColDersinOgretmeni, ColYer>>,
       << <<"1">>, sMATEMATIK, sA_YILMAZ, <<"1", "0", "1">> >>,
       << <<"2">>, sFIZIK, sELIF_KAYA, <<"L", "A", "B", " ", "2">> >> >>

GridB ==
    << <<None, <<"1">>, <<"2">>, <<"3">> >>,
       <<sPazartesi,
         sMATEMATIK \o <<"\n">> \o sA_YILMAZ,
         <<>>,
         sMATEMATIK,
         sFIZIK \o <<"\n">> \o sELIF_KAYA \o <<"\n", "L", "A", "B", " ", "2">>,
         None, <<>>, <<>>, <<>>, <<>>,
         sMATEMATIK>>,
       << <<" ", "C", "u", "m", "a", " ">>, sFIZIK>>,
       <<DAY_NAMES[6], sMATEMATIK>>,
       <<DAY_NAMES[7], sFIZIK, sMATEMATIK>> >>

PageB == [tables |-> <<GridB, LegendB>>, text |-> <<"S", " ", "9", "/", "B">>]

\* a page on which no table is found
PageC == [tables |-> <<>>, text |-> <<>>]

\* a page whose week grid is empty and whose legend names a teacher
LegendE ==
    <<LegendHeader, <<sMATEMATIK, sCAN_KAYA \o <<",">> \o sAHMET_YILMAZ, <<>> >> >>

PageE == [tables |-> << <<>>, LegendE>>, text |-> <<"1", "0", "/", "C">>]

\* a page whose legend has its header row only, and no class label; period 3
\* of its Monday is taken
GridF == << <<sPazartesi, <<>>, <<>>, sMATEMATIK>> >>

PageF == [tables |-> <<GridF, <<LegendHeader>> >>, text |-> <<"x">>]

\* a second page of class 9/A, whose Monday period 3 is taken
PageG == [tables |-> <<GridF, LegendA>>, text |-> <<"9", "/", "A">>]

Pages == {PageA, PageB, PageC, PageE, PageF, PageG}

\* most pages read in one run, over all its uploaded files
MaxPages == 2

Documents == UNION {[1..n -> Pages] : n \in 1..MaxPages}

\* the orders in which a loop can visit a set
Orderings(S) == {o \in [1..Cardinality(S) -> S] : Range(o) = S}

(***************************************************************************)
(* State                                                                   *)
(***************************************************************************)
VARIABLES
    pc,                     \* where the run is
    files,                  \* number of uploaded files taken so far
    pages_read,             \* number of pages of the files taken so far
    pdf,                    \* the pages of the document being processed
    ci,                     \* collect_known_teacher_names: next page to visit
    names,                  \* collect_known_teacher_names: names so far
    known_teacher_names,    \* the pool, in the order a loop visits it
    i,                      \* _process_uploaded_pdf_impl: next page
    catalog,                \* catalog of the page processed last
    week_table,             \* week grid of the page processed last
    schedule,               \* simplified schedule of the page processed last
    teacher_schedules_page, \* teacher schedules of the page processed last
    class_schedules,        \* class name -> simplified schedule, this document
    teacher_schedules_all,  \* aggregate teacher schedule, this document
    all_class_schedules,    \* app.main: over all documents
    all_teacher_schedules,  \* app.main: over all documents
    resolved_with,          \* history: per resolved page, the pool it used and
                            \* the number of pages the collection had visited
    candidate,              \* _best_teacher_name_match: the fragment
    known_names,            \* _best_teacher_name_match: the pool
    best,                   \* _best_teacher_name_match: the result
    cell_text,              \* extract_lesson_name_from_cell: the cell
    lesson_name,            \* extract_lesson_name_from_cell: the result
    heap,                   \* merge loop: the by_day dicts made so far, object
                            \* -> value; the object <<k, t>> is the dict
                            \* that the k-th source holds for teacher t
    teacher_objects,        \* merge loop: teacher -> the object that the
                            \* target holds for the teacher
    held                    \* history: the sources as they were when merged

vars == <<pc, files, pages_read, pdf, ci, names, known_teacher_names, i, catalog,
          week_table, schedule, teacher_schedules_page, class_schedules,
          teacher_schedules_all, all_class_schedules, all_teacher_schedules,
          resolved_with, candidate, known_names, best, cell_text, lesson_name,
          heap, teacher_objects, held>>

docVars == <<pdf, ci, names, known_teacher_names, i, catalog, week_table,
             schedule, teacher_schedules_page, class_schedules,
             teacher_schedules_all, resolved_with>>

appVars == <<files, pages_read, all_class_schedules, all_teacher_schedules>>

matchVars == <<candidate, known_names, best>>

cellVars == <<cell_text, lesson_name>>

mergeVars == <<heap, teacher_objects, held>>

\* the locals of a call of _process_uploaded_pdf_impl that is not running
NoDocument ==
    /\ pdf = <<>>
    /\ ci = 0
    /\ names = {}
    /\ known_teacher_names = <<>>
    /\ i = 0
    /\ catalog = None
    /\ week_table = <<>>
    /\ schedule = <<>>
    /\ teacher_schedules_page = EmptyFunction
    /\ class_schedules = EmptyFunction
    /\ teacher_schedules_all = EmptyFunction
    /\ resolved_with = <<>>

NoApp ==
    /\ files = 0
    /\ pages_read = 0
    /\ all_class_schedules = EmptyFunction
    /\ all_teacher_schedules = EmptyFunction

NoMatch == candidate = <<>> /\ known_names = <<>> /\ best = None

NoCell == cell_text = <<>> /\ lesson_name = None

\* no merge loop has run
NoMerge == heap = EmptyFunction /\ teacher_objects = EmptyFunction /\ held = <<>>

(***************************************************************************)
(* The document loop: app.main and _process_uploaded_pdf_impl              *)
(***************************************************************************)
Init == pc = "idle" /\ NoDocument /\ NoApp /\ NoMerge /\ NoMatch /\ NoCell

\* app.main: the next uploaded file is read and its processing starts
UploadFile ==
    /\ pc = "idle"
    /\ \E doc \in Documents :
           /\ Len(doc) <= MaxPages - pages_read
           /\ pdf' = doc
           /\ pages_read' = pages_read + Len(doc)
    /\ files' = files + 1
    /\ pc' = "collect"
    /\ ci' = 1
    /\ names' = {}
    /\ i' = 0
    /\ UNCHANGED <<known_teacher_names, catalog, week_table, schedule,
                   teacher_schedules_page, class_schedules,
                   teacher_schedules_all, resolved_with,
                   all_class_schedules, all_teacher_schedules>>
    /\ UNCHANGED <<matchVars, cellVars>>
    /\ UNCHANGED mergeVars

\* CollectFinished with a return inside the loop: one page is visited
CollectFinished_first_page(next, document) == next > 1

\* the loop of collect_known_teacher_names has visited every page
CollectFinished(next, document) == next > Len(document)

\* collect_known_teacher_names: one iteration of the loop over pdf.pages
CollectPage ==
    /\ pc = "collect"
    /\ ~CollectFinished(ci, pdf)
    /\ names' = names \cup PageTeacherNames(pdf[ci])
    /\ ci' = ci + 1
    /\ UNCHANGED <<pc, pdf, known_teacher_names, i, catalog, week_table,
                   schedule, teacher_schedules_page, class_schedules,
                   teacher_schedules_all, resolved_with>>
    /\ UNCHANGED <<appVars, matchVars, cellVars>>
    /\ UNCHANGED mergeVars

\* collect_known_teacher_names: names -= BLACKLIST_TEACHER_NAMES; return
CollectReturn ==
    /\ pc = "collect"
    /\ CollectFinished(ci, pdf)
    /\ \E order \in Orderings(names \ BLACKLIST_TEACHER_NAMES) :
           known_teacher_names' = order
    /\ pc' = "pages"
    /\ i' = 1
    /\ UNCHANGED <<pdf, ci, names, catalog, week_table, schedule,
                   teacher_schedules_page, class_schedules,
                   teacher_schedules_all, resolved_with>>
    /\ UNCHANGED <<appVars, matchVars, cellVars>>
    /\ UNCHANGED mergeVars

\* the class name of page k of the document
ClassNameOf(document, k) ==
    parse_class_name(document[k].text, PageFallbackName(k))

\* one iteration of the page loop in which the catalog builder raises: the
\* exception leaves _process_uploaded_pdf_impl and ends the run
PageRaises ==
    /\ pc = "pages"
    /\ i <= Len(pdf)
    /\ \E cat \in {extract_catalog_from_bottom_table(pdf[i])} :
           /\ IsException(cat)
           /\ catalog' = cat
    /\ pc' = "raised"
    /\ UNCHANGED <<pdf, ci, names, known_teacher_names, i, week_table,
                   schedule, teacher_schedules_page, class_schedules,
                   teacher_schedules_all, resolved_with>>
    /\ UNCHANGED <<appVars, matchVars, cellVars>>
    /\ UNCHANGED mergeVars

\* one iteration of the page loop that ends at "if not week_table: continue"
PageSkipped ==
    /\ pc = "pages"
    /\ i <= Len(pdf)
    /\ \E cat \in {extract_catalog_from_bottom_table(pdf[i])} :
           /\ ~IsException(cat)
           /\ catalog' = cat
    /\ extract_week_table(pdf[i]) = <<>>
    /\ week_table' = <<>>
    /\ i' = i + 1
    /\ UNCHANGED <<pc, pdf, ci, names, known_teacher_names, schedule,
                   teacher_schedules_page, class_schedules,
                   teacher_schedules_all, resolved_with>>
    /\ UNCHANGED <<appVars, matchVars, cellVars>>
    /\ UNCHANGED mergeVars

\* class_schedules[class_name] = schedule
SetClassSchedule(schedules, class_name, sched) ==
    [c \in DOMAIN schedules \cup {class_name} |->
        IF c = class_name THEN sched ELSE schedules[c]]

\* one full iteration of the page loop, the merge of the page included
PageProcessed ==
    /\ pc = "pages"
    /\ i <= Len(pdf)
    /\ \E cat \in {extract_catalog_from_bottom_table(pdf[i])},
          wt \in {extract_week_table(pdf[i])},
          class_name \in {ClassNameOf(pdf, i)} :
           /\ ~IsException(cat)
           /\ wt # <<>>
           /\ catalog' = cat
           /\ week_table' = wt
           /\ \E sched \in {make_simplified_schedule(wt, cat)} :
                  /\ schedule' = sched
                  /\ class_schedules' =
                         SetClassSchedule(class_schedules, class_name, sched)
           /\ \E page_ts \in
                  {build_teacher_schedules(
                       wt, cat,
                       extract_lesson_teacher_map(pdf[i], cat, known_teacher_names),
                       class_name)} :
                  /\ teacher_schedules_page' = page_ts
                  /\ teacher_schedules_all' =
                         merge_teacher_schedules(teacher_schedules_all, page_ts)
    /\ resolved_with' =
           Append(resolved_with,
                  [page |-> i, pool |-> Range(known_teacher_names),
                   visited |-> ci - 1])
    /\ i' = i + 1
    /\ UNCHANGED <<pc, pdf, ci, names, known_teacher_names>>
    /\ UNCHANGED <<appVars, matchVars, cellVars>>
    /\ UNCHANGED mergeVars

\* target.update(source)
UpdateDict(target, source) ==
    [c \in DOMAIN target \cup DOMAIN source |->
        IF c \in DOMAIN source THEN source[c] ELSE target[c]]

\* _process_uploaded_pdf_impl returns; app.main folds the result into the
\* schedules of all files and goes on to the next file
ReturnDocument ==
    /\ pc = "pages"
    /\ i > Len(pdf)
    /\ all_class_schedules' = UpdateDict(all_class_schedules, class_schedules)
    /\ all_teacher_schedules' =
           merge_teacher_schedules(all_teacher_schedules, teacher_schedules_all)
    /\ pc' = "idle"
    /\ pdf' = <<>>
    /\ ci' = 0
    /\ names' = {}
    /\ known_teacher_names' = <<>>
    /\ i' = 0
    /\ catalog' = None
    /\ week_table' = <<>>
    /\ schedule' = <<>>
    /\ teacher_schedules_page' = EmptyFunction
    /\ class_schedules' = EmptyFunction
    /\ teacher_schedules_all' = EmptyFunction
    /\ resolved_with' = <<>>
    /\ UNCHANGED <<files, pages_read>>
    /\ UNCHANGED <<matchVars, cellVars>>
    /\ UNCHANGED mergeVars

Next ==
    \/ UploadFile
    \/ CollectPage
    \/ CollectReturn
    \/ PageRaises
    \/ PageSkipped
    \/ PageProcessed
    \/ ReturnDocument

Spec == Init /\ [][Next]_vars

(***************************************************************************)
(* Properties of the document loop (specification Spec)                    *)
(***************************************************************************)
\* number of occurrences of e in the list entries
Occurrences(entries, e) == Cardinality({k \in 1..Len(entries) : entries[k] = e})

\* the list at teacher / day / period of a teacher schedule, [] when a key
\* is missing
EntriesAt(ts, teacher, day, p) ==
    IF teacher \in DOMAIN ts /\ day \in DOMAIN ts[teacher]
       /\ p \in DOMAIN ts[teacher][day]
    THEN ts[teacher][day][p] ELSE <<>>

DaysOf(ts) == UNION {DOMAIN ts[t] : t \in DOMAIN ts}

PeriodsOf(ts) ==
    UNION {UNION {DOMAIN ts[t][d] : d \in DOMAIN ts[t]} : t \in DOMAIN ts}

\* result holds, slot by slot, every pair as often as target and source
\* hold it together
MergedWithoutLoss(target, source, result) ==
    \A t \in DOMAIN target \cup DOMAIN source \cup DOMAIN result :
    \A d \in DaysOf(target) \cup DaysOf(source) \cup DaysOf(result) :
    \A p \in PeriodsOf(target) \cup PeriodsOf(source) \cup PeriodsOf(result) :
    \A e \in Range(EntriesAt(target, t, d, p)) \cup Range(EntriesAt(source, t, d, p))
                 \cup Range(EntriesAt(result, t, d, p)) :
        Occurrences(EntriesAt(result, t, d, p), e)
            = Occurrences(EntriesAt(target, t, d, p), e)
                  + Occurrences(EntriesAt(source, t, d, p), e)

\* a step that merges a page into the aggregate of its document
IsPageMerge == pc = "pages" /\ Len(resolved_with') = Len(resolved_with) + 1

\* a step that merges a document into the aggregate of all files
IsDocumentMerge == pc = "pages" /\ pc' = "idle"

\* C1: merge non-loss.  Every merge step, of a page into the aggregate of its
\* document and of a document into the aggregate of all files, leaves in
\* every teacher/day/period slot each (lesson, class) pair exactly as often
\* as the target and the source held it together: entries are appended,
\* never replaced, never deduplicated.
C1_MergeNonLoss ==
    [][/\ IsPageMerge =>
              MergedWithoutLoss(teacher_schedules_all, teacher_schedules_page',
                                teacher_schedules_all')
       /\ IsDocumentMerge =>
              MergedWithoutLoss(all_teacher_schedules, teacher_schedules_all,
                                all_teacher_schedules')]_vars

\* the example of C1: after a merge, Monday period 3 of one teacher holds
\* the pair of class 9/A and the pair of class 9/B
C1_Witness ==
    \E t \in DOMAIN teacher_schedules_all :
        /\ Len(resolved_with) = 2
        /\ <<sMATEMATIK, <<"9", "/", "A">> >>
               \in Range(teacher_schedules_all[t][sPazartesi][3])
        /\ <<sMATEMATIK, <<"9", "/", "B">> >>
               \in Range(teacher_schedules_all[t][sPazartesi][3])

\* the page the page loop handled last (the raising page after a raise)
HandledPage == IF pc = "raised" THEN pdf[i] ELSE pdf[i - 1]

HasHandledPage == (pc = "raised") \/ (pc = "pages" /\ i > 1)

\* C2: building the catalog from a page whose legend table is absent or has
\* fewer than 2 rows never raises: the catalog is empty (no lesson names,
\* empty raw_by_norm, no teacher words).
C2_NoLegendGivesEmptyCatalog ==
    (HasHandledPage /\ NoLegend(HandledPage)) =>
        /\ ~IsException(catalog)
        /\ catalog.lesson_names = <<>>
        /\ catalog.raw_by_norm = EmptyFunction
        /\ catalog.teacher_words = {}

\* the teacher schedule with the single entry the end-to-end scenario gives
ScenarioTeacherSchedule ==
    sAHMET_YILMAZ :>
        [day \in Range(SubSeq(DAY_NAMES, 1, 5)) |->
            [p \in 1..9 |->
                IF day = sPazartesi /\ p = 1
                THEN << <<sMATEMATIK, <<"9", "/", "A">> >> >>
                ELSE <<>>]]

\* the one-page document of the end-to-end scenario has been processed
ScenarioProcessed == pdf = <<PageA>> /\ pc = "pages" /\ i = 2

\* C4: end-to-end scenario.  For the one-page document with the legend row
\* (MATEMATIK, AHMET YILMAZ, 101) and the grid row (Pazartesi, [the cell
\* MATEMATIK / AHMET YILMAZ / 101, then blank cells]) the simplified schedule
\* is [(Pazartesi, [MATEMATIK])], and the teacher schedule has the one key
\* AHMET YILMAZ with [(MATEMATIK, class name)] at Pazartesi period 1 and
\* every other slot empty.
C4_EndToEnd ==
    ScenarioProcessed =>
        /\ known_teacher_names = <<sAHMET_YILMAZ>>
        /\ schedule = << <<sPazartesi, <<sMATEMATIK>> >> >>
        /\ class_schedules = (<<"9", "/", "A">> :> schedule)
        /\ teacher_schedules_page = ScenarioTeacherSchedule
        /\ teacher_schedules_all = ScenarioTeacherSchedule

C4_Witness == ScenarioProcessed /\ teacher_schedules_page # EmptyFunction

\* a grid row whose label, whitespace-normalized, is one of the five weekday
\* names
LabelledWeekday(row) ==
    /\ row # <<>>
    /\ row[1] # None
    /\ _norm(row[1]) \in {DAY_NAMES[1], DAY_NAMES[2], DAY_NAMES[3],
                          DAY_NAMES[4], DAY_NAMES[5]}

\* the page loop has just processed a page, whose grid week_table is
PageJustProcessed ==
    pc = "pages" /\ week_table # <<>> /\ resolved_with # <<>>

\* C5: weekend exclusion.  The simplified schedule and the teacher schedules
\* of a page are those of its grid with every row removed whose label is not
\* one of the five weekday names (Cumartesi, Pazar, a blank or any other
\* label); no entry of the simplified schedule carries such a label.
C5_WeekendExclusion ==
    PageJustProcessed =>
        /\ schedule = make_simplified_schedule(
                          SelectSeq(week_table, LabelledWeekday), catalog)
        /\ \A k \in 1..Len(schedule) :
               schedule[k][1] \notin {DAY_NAMES[6], DAY_NAMES[7]}
        /\ Len(schedule) = Len(SelectSeq(week_table, LabelledWeekday))
        /\ teacher_schedules_page =
               build_teacher_schedules(
                   SelectSeq(week_table, LabelledWeekday), catalog,
                   extract_lesson_teacher_map(pdf[i - 1], catalog,
                                              known_teacher_names),
                   ClassNameOf(pdf, i - 1))

\* a processed grid has a weekend row with a lesson in it, and the page
\* gave entries to a teacher
C5_Witness ==
    /\ PageJustProcessed
    /\ \E k \in 1..Len(week_table) :
           /\ week_table[k][1] \in {DAY_NAMES[6], DAY_NAMES[7]}
           /\ Len(week_table[k]) > 1
           /\ week_table[k][2] = sMATEMATIK
    /\ teacher_schedules_page # EmptyFunction
    /\ schedule # <<>>

\* C6: a page that cannot be processed (no tables, so neither week grid nor
\* legend) does not abort a multi-page document: the page loop goes on and
\* the run does not end with an exception.
C6_PageFailureDoesNotAbort ==
    (Len(pdf) > 1 /\ \E k \in 1..Len(pdf) : pdf[k].tables = <<>>) =>
        pc # "raised"

\* every teacher of ts has the five weekdays, and under every day exactly
\* the periods 1..9
FullSkeleton(ts) ==
    \A t \in DOMAIN ts :
        /\ {DAY_NAMES[1], DAY_NAMES[2], DAY_NAMES[3], DAY_NAMES[4], DAY_NAMES[5]}
               \subseteq DOMAIN ts[t]
        /\ \A d \in DOMAIN ts[t] : DOMAIN ts[t][d] = 1..9

\* C7: skeleton invariant.  In the result of build_teacher_schedules, in the
\* aggregate of a document and in the aggregate of all files, every teacher
\* key maps each of the five weekdays to a mapping whose keys are exactly the
\* periods 1..9.
C7_Skeleton ==
    /\ FullSkeleton(teacher_schedules_page)
    /\ FullSkeleton(teacher_schedules_all)
    /\ FullSkeleton(all_teacher_schedules)

\* the aggregate of all files holds a teacher whose slot was merged from two
\* sources, after two documents
C7_Witness ==
    /\ files = 2
    /\ pc = "idle"
    /\ \E t \in DOMAIN all_teacher_schedules :
           Len(all_teacher_schedules[t][sPazartesi][1]) >= 2

\* the pool of a whole document, as the claim defines it: the names of the
\* legends of all its pages
WholeDocumentPool(document) ==
    UNION {PageTeacherNames(document[k]) : k \in 1..Len(document)}
        \ BLACKLIST_TEACHER_NAMES

\* C8: two-phase ordering.  Every page was resolved after the collection
\* pass had visited every page of the document, and with the pool of the
\* whole document; while pages are resolved the collection is over.
C8_TwoPhase ==
    /\ pc = "pages" => ci > Len(pdf)
    /\ \A k \in 1..Len(resolved_with) :
           /\ resolved_with[k].visited = Len(pdf)
           /\ resolved_with[k].pool = WholeDocumentPool(pdf)

\* page 1 was resolved with a pool that holds a name found on the last page
\* only
C8_Witness ==
    /\ Len(pdf) >= 2
    /\ resolved_with # <<>>
    /\ resolved_with[1].page = 1
    /\ \E n \in resolved_with[1].pool :
           /\ n \in PageTeacherNames(pdf[Len(pdf)])
           /\ n \notin PageTeacherNames(pdf[1])

(***************************************************************************)
(* _best_teacher_name_match on its own (specification SpecMatch)           *)
(***************************************************************************)
sAHMET_CAN_YILMAZ ==
    <<"A", "H", "M", "E", "T", " ", "C", "A", "N", " ",
      "Y", "I", "L", "M", "A", "Z">>

sALI_KAYA == <<"A", "L", "I", " ", "K", "A", "Y", "A">>

sYILMAZ_KAYA == <<"Y", "I", "L", "M", "A", "Z", " ", "K", "A", "Y", "A">>

sELA_YILMAZ == <<"E", "L", "A", " ", "Y", "I", "L", "M", "A", "Z">>

sYILMAZ == <<"Y", "I", "L", "M", "A", "Z">>

sKAYA == <<"K", "A", "Y", "A">>

\* the names a pool is drawn from: those collect_known_teacher_names admits
MatchNames ==
    {n \in {sAHMET_CAN_YILMAZ, sALI_KAYA, sYILMAZ_KAYA, sELA_YILMAZ} :
        _is_probable_full_teacher_name(n) /\ n \notin BLACKLIST_TEACHER_NAMES}

\* the words a fragment is made of: two surnames, a first name, a surname in
\* lower case, a garbled surname
MatchTokens ==
    {sYILMAZ, sKAYA, <<"A", "L", "I">>,
     <<"y", "i", "l", "m", "a", "z">>, <<"Y", "I", "L", "M", "A", "S">>}

\* most names of a pool
MaxPool == 3

\* most words of a fragment
MaxFragTokens == 2

\* the pools, each in every order a loop over the set can visit it
MatchPools ==
    UNION {Orderings(S) : S \in {T \in SUBSET MatchNames : Cardinality(T) <= MaxPool}}

\* the fragments: up to MaxFragTokens words, one space between two
MatchFragments ==
    {Join(ws, <<" ">>) : ws \in UNION {[1..n -> MatchTokens] : n \in 0..MaxFragTokens}}

InitMatch ==
    /\ pc = "match_input"
    /\ NoDocument /\ NoApp /\ NoMerge /\ NoCell
    /\ candidate \in MatchFragments
    /\ known_names \in MatchPools
    /\ best = None

\* one call of _best_teacher_name_match
ResolveFragment ==
    /\ pc = "match_input"
    /\ best' = _best_teacher_name_match(candidate, known_names)
    /\ pc' = "match_done"
    /\ UNCHANGED <<candidate, known_names>>
    /\ UNCHANGED <<docVars, appVars, cellVars>>
    /\ UNCHANGED mergeVars

NextMatch == ResolveFragment

SpecMatch == InitMatch /\ [][NextMatch]_vars

\* the words of a fragment, upper-cased
FragmentTokens(fragment) == Range(Split(_norm_upper(fragment)))

\* the last word of a pool name, upper-cased
LastToken(name) ==
    LET ws == Split(_norm_upper(name)) IN IF ws = <<>> THEN <<>> ELSE ws[Len(ws)]

\* name is the one name of the pool with its last word
OnlyNameWithItsSurname(name, pool) ==
    /\ LastToken(name) # <<>>
    /\ \A m \in Range(pool) : LastToken(m) = LastToken(name) => m = name

\* the pool names outside the denylist whose last word is a word of the
\* fragment
SurnameHits(fragment, pool) ==
    {m \in Range(pool) \ BLACKLIST_TEACHER_NAMES :
        LastToken(m) # <<>> /\ LastToken(m) \in FragmentTokens(fragment)}

\* C3 as stated: for a pool in which exactly one name has last word S and a
\* fragment that has S among its words, whatever its other words are, the
\* result is that one name.
C3_SurnameFirstAnyFragment ==
    pc = "match_done" =>
        \A n \in Range(known_names) :
            (/\ OnlyNameWithItsSurname(n, known_names)
             /\ LastToken(n) \in FragmentTokens(candidate)) => best = n

\* C3, amended: when exactly one pool name has as its last word a word of
\* the fragment (the surname matches of all the words of the fragment taken
\* together are one name), the result is that name, whatever the similarity
\* scores of the fragment against the pool names are.
C3_SurnameFirstUniqueHit ==
    pc = "match_done" =>
        \A n \in Range(known_names) :
            SurnameHits(candidate, known_names) = {n} => best = n

\* the surname decided for a name that whole-name similarity would not have
\* chosen
C3_Witness ==
    /\ pc = "match_done"
    /\ Len(known_names) >= 2
    /\ \E n \in Range(known_names) :
           /\ SurnameHits(candidate, known_names) = {n}
           /\ best = n
           /\ FuzzyTeacherMatch(_norm_upper(candidate), known_names) \notin {n, None}

(***************************************************************************)
(* extract_lesson_name_from_cell on its own (specification SpecCell)       *)
(***************************************************************************)
\* a legend whose lesson cell is broken over two lines
LegendL1 ==
    <<LegendHeader, << <<"A", "\n", "B">>, <<"B", "B">>, <<"1", "A">> >> >>

\* a legend without the lesson column, its teacher cell naming two teachers
LegendL2 ==
    << <<ColDersinOgretmeni>>, << <<"A", "A", ",", "B", "1">> >> >>

\* a legend of two lessons, without teacher and place
LegendL3 ==
    << <<ColDersinAdi>>, << <<"A", "B">> >>, << <<"1", "nbsp", "B">> >> >>

CellLegends == {LegendL1, LegendL2, LegendL3}

\* the catalogs the classifier is given: those the catalog builder returns
CellCatalogs ==
    {extract_catalog_from_bottom_table([tables |-> << <<>>, legend>>, text |-> <<>>]) :
        legend \in CellLegends}

\* the characters of a cell: letters, a digit, a space, a line break, a
\* no-break space
CellAlphabet == {"A", "B", "1", " ", "\n", "nbsp"}

\* most characters of a cell
MaxCellLen == 4

CellTexts == UNION {[1..n -> CellAlphabet] : n \in 0..MaxCellLen}

InitCell ==
    /\ pc = "cell_input"
    /\ pdf = <<>>
    /\ ci = 0
    /\ names = {}
    /\ known_teacher_names = <<>>
    /\ i = 0
    /\ catalog \in CellCatalogs
    /\ week_table = <<>>
    /\ schedule = <<>>
    /\ teacher_schedules_page = EmptyFunction
    /\ class_schedules = EmptyFunction
    /\ teacher_schedules_all = EmptyFunction
    /\ resolved_with = <<>>
    /\ NoApp /\ NoMerge /\ NoMatch
    /\ cell_text \in CellTexts
    /\ lesson_name = None

\* one call of extract_lesson_name_from_cell
ClassifyCell ==
    /\ pc = "cell_input"
    /\ lesson_name' = extract_lesson_name_from_cell(cell_text, catalog)
    /\ pc' = "cell_done"
    /\ UNCHANGED cell_text
    /\ UNCHANGED <<docVars, appVars, matchVars>>
    /\ UNCHANGED mergeVars

NextCell == ClassifyCell

SpecCell == InitCell /\ [][NextCell]_vars

\* the characters at which a str ends a line
NewlineChars == {"\n", "\r", "\f"}

\* C9: for every cell text and every catalog the builder returns, the value
\* extract_lesson_name_from_cell returns holds no newline character, on each
\* of its return paths (fuzzy match, stripped tokens, raw candidate).
C9_SingleLine ==
    pc = "cell_done" =>
        \A k \in 1..Len(lesson_name) : lesson_name[k] \notin NewlineChars

\* a cell of two lines was matched to a lesson whose legend cell was broken
\* over two lines
C9_Witness ==
    /\ pc = "cell_done"
    /\ \E k \in 1..Len(cell_text) : cell_text[k] \in NewlineChars
    /\ LessonNameResult(cell_text, catalog).path = "match"
    /\ lesson_name = <<"A", " ", "B">>
    /\ \E legend \in CellLegends :
           /\ catalog = extract_catalog_from_bottom_table(
                            [tables |-> << <<>>, legend>>, text |-> <<>>])
           /\ \E k \in 1..Len(legend[2][1]) : legend[2][1][k] \in NewlineChars

\* a cell has a line that is not blank: a character of it is no white space
HasNonBlankLine(text) ==
    \E k \in 1..Len(text) : text[k] \notin WhitespaceChars \cup {"nbsp"}

\* C10: for every catalog and every cell text with a line that is not blank
\* extract_lesson_name_from_cell returns a non-empty string, also when the
\* first line is a teacher line or a location line and when every word of
\* the candidate is a teacher word, a location word or a number; it returns
\* the empty string only for a cell without such a line.
C10_NonEmptyName ==
    pc = "cell_done" => (lesson_name # <<>> <=> HasNonBlankLine(cell_text))

\* the first line of the cell is a teacher line, every word of the candidate
\* is a teacher word or a number, and the candidate is returned
C10_Witness ==
    /\ pc = "cell_done"
    /\ HasNonBlankLine(cell_text)
    /\ _is_probably_teacher_line(CellLines(cell_text)[1], catalog)
    /\ Len(CellLines(cell_text)) = 2
    /\ LessonNameResult(cell_text, catalog).path = "candidate"
    /\ lesson_name # <<>>

(***************************************************************************)
(* The two fuzzy resolvers on their own (specification SpecBest)           *)
(***************************************************************************)
\* a legend of two lessons that score alike against a one-letter candidate
LegendM1 == << <<ColDersinAdi>>, << <<"A", "C">> >>, << <<"A", "B">> >> >>

\* a legend whose lesson scores 0.6 against ABCDE and 0.4 against ABDEF
LegendM2 == << <<ColDersinAdi>>, << <<"a", "b", "c", "X", "Y">> >> >>

BestLegends == {LegendM1, LegendM2}

BestCatalogs ==
    {extract_catalog_from_bottom_table([tables |-> << <<>>, legend>>, text |-> <<>>]) :
        legend \in BestLegends}

sALA_KAYA == <<"A", "L", "A", " ", "K", "A", "Y", "A">>

sALU_KAYA == <<"A", "L", "U", " ", "K", "A", "Y", "A">>

sAB_XY == <<"A", "B", " ", "X", "Y">>

\* pool names: two that score alike against ALI KAYA, one that scores 0.6
\* against AB CD
BestNames ==
    {n \in {sALA_KAYA, sALU_KAYA, sAB_XY} :
        _is_probable_full_teacher_name(n) /\ n \notin BLACKLIST_TEACHER_NAMES}

BestPools ==
    UNION {Orderings(S) : S \in {T \in SUBSET BestNames : Cardinality(T) <= MaxPool}}

\* the candidates of both resolvers
BestCandidates ==
    {<<>>, <<"A">>, <<"A", "B">>, <<"a", "c">>, <<"A", "B", "C", "D", "E">>,
     <<"A", "B", "D", "E", "F">>, <<"A", "B", " ", "C", "D">>,
     <<"A", "B", " ", "C">>, sALI_KAYA, <<"K", "A", "Y", "A">>,
     <<" ", "A", "L", "A", " ", " ", "K", "A", "Y", "A">>}

InitBest ==
    /\ pc = "best_input"
    /\ pdf = <<>>
    /\ ci = 0
    /\ names = {}
    /\ known_teacher_names = <<>>
    /\ i = 0
    /\ catalog \in BestCatalogs
    /\ week_table = <<>>
    /\ schedule = <<>>
    /\ teacher_schedules_page = EmptyFunction
    /\ class_schedules = EmptyFunction
    /\ teacher_schedules_all = EmptyFunction
    /\ resolved_with = <<>>
    /\ NoApp /\ NoMerge /\ NoCell
    /\ candidate \in BestCandidates
    /\ known_names \in BestPools
    /\ best = None

\* one call of catalog.best_lesson_match
ResolveLesson ==
    /\ pc = "best_input"
    /\ best' = best_lesson_match(catalog, candidate)
    /\ pc' = "lesson_done"
    /\ UNCHANGED <<candidate, known_names>>
    /\ UNCHANGED <<docVars, appVars, cellVars>>
    /\ UNCHANGED mergeVars

\* one call of _best_teacher_name_match
ResolveTeacher ==
    /\ pc = "best_input"
    /\ best' = _best_teacher_name_match(candidate, known_names)
    /\ pc' = "teacher_done"
    /\ UNCHANGED <<candidate, known_names>>
    /\ UNCHANGED <<docVars, appVars, cellVars>>
    /\ UNCHANGED mergeVars

NextBest == ResolveLesson \/ ResolveTeacher

SpecBest == InitBest /\ [][NextBest]_vars

\* the thresholds below the acceptance threshold, in hundredths
LowerThresholds == 0..(ThresholdNum - 1)

\* the best (name, score) the loop of best_lesson_match ends with
LessonLoopResult ==
    BestLessonLoop(catalog.lesson_names, 1, _norm_upper(candidate), None, ZeroScore)

\* the best (name, score) the fuzzy loop of _best_teacher_name_match ends with
TeacherLoopResult ==
    BestTeacherLoop(known_names, 1, _norm_upper(candidate),
                    [name |-> None, score |-> ZeroScore])

\* what the return statement of a resolver gives at the threshold t / 100
\* for a loop result b: b itself when accepted, no name otherwise
AcceptedAt(b, t) ==
    IF b.name # None /\ b.name # <<>> /\ AtLeast(b.score, t, ThresholdDen)
    THEN b ELSE [name |-> None, score |-> ZeroScore]

\* score x is the same as or higher than score y
ScoreAtLeast(x, y) == x.num * y.den >= y.num * x.den

\* the fuzzy step decided the teacher: no single surname hit
FuzzyDecides ==
    /\ _norm_upper(candidate) # <<>>
    /\ Cardinality(SurnameHits(candidate, known_names)) # 1

\* C11: fuzzy threshold monotonicity.  When a resolver returns a match at the
\* acceptance threshold 0.60, then at every lower threshold it returns a
\* match too, whose score is the same or higher: for the lesson resolver and
\* for the fuzzy step of the teacher resolver.
C11_ThresholdMonotone ==
    /\ (pc = "lesson_done" /\ best # None) =>
           \A t \in LowerThresholds :
               /\ AcceptedAt(LessonLoopResult, t).name # None
               /\ ScoreAtLeast(AcceptedAt(LessonLoopResult, t).score,
                               _similar(_norm_upper(candidate), _norm_upper(best)))
    /\ (pc = "teacher_done" /\ best # None /\ FuzzyDecides) =>
           \A t \in LowerThresholds :
               /\ AcceptedAt(TeacherLoopResult, t).name # None
               /\ ScoreAtLeast(AcceptedAt(TeacherLoopResult, t).score,
                               _similar(_norm_upper(candidate), _norm_upper(best)))

\* a lesson was matched with the score 0.6 exactly, the lowest that is
\* accepted
C11_Witness ==
    /\ pc = "lesson_done"
    /\ best # None
    /\ LessonLoopResult.score.num * ThresholdDen = ThresholdNum * LessonLoopResult.score.den

(***************************************************************************)
(* The Catalog Builder on its own (specification SpecCatalog)              *)
(***************************************************************************)
\* header rows: the three titles, the lesson title alone, the titles in
\* another order with a padded lesson title, the lesson title twice, no
\* lesson title
CatalogHeaders ==
    {LegendHeader,
     <<ColDersinAdi>>,
     <<ColYer, <<" ">> \o ColDersinAdi \o <<" ">> >>,
     <<ColDersinAdi, ColDersinAdi>>,
     <<ColDersinOgretmeni, None>>}

\* the cells of a legend row: no cell text, a blank, a name in two
\* spellings, a name over two lines
CatalogCells == {None, <<"nbsp">>, <<"A", "B">>, <<"a", " ", "b">>, <<"a", "\n", "B">>}

\* most rows of a legend below its header
MaxLegendRows == 2

\* legend rows: an empty row, a row of the lesson cell alone, a row of two
\* cells
CatalogRowsIn ==
    {<<>>} \cup {<<c>> : c \in CatalogCells}
           \cup {<<c, d>> : c \in CatalogCells, d \in CatalogCells}

CatalogLegends ==
    {<<h>> \o rows : h \in CatalogHeaders,
                     rows \in UNION {[1..n -> CatalogRowsIn] : n \in 1..MaxLegendRows}}

InitCatalog ==
    /\ pc = "catalog_input"
    /\ \E legend \in CatalogLegends :
           pdf = << [tables |-> << <<>>, legend>>, text |-> <<>>] >>
    /\ ci = 0
    /\ names = {}
    /\ known_teacher_names = <<>>
    /\ i = 1
    /\ catalog = None
    /\ week_table = <<>>
    /\ schedule = <<>>
    /\ teacher_schedules_page = EmptyFunction
    /\ class_schedules = EmptyFunction
    /\ teacher_schedules_all = EmptyFunction
    /\ resolved_with = <<>>
    /\ NoApp /\ NoMerge /\ NoMatch /\ NoCell

\* one call of extract_catalog_from_bottom_table
BuildCatalog ==
    /\ pc = "catalog_input"
    /\ catalog' = extract_catalog_from_bottom_table(pdf[i])
    /\ pc' = "catalog_done"
    /\ UNCHANGED <<pdf, ci, names, known_teacher_names, i, week_table, schedule,
                   teacher_schedules_page, class_schedules,
                   teacher_schedules_all, resolved_with>>
    /\ UNCHANGED <<appVars, matchVars, cellVars>>
    /\ UNCHANGED mergeVars

NextCatalog == BuildCatalog

SpecCatalog == InitCatalog /\ [][NextCatalog]_vars

\* C12: catalog membership.  In the catalog the builder returns for a legend
\* table every key of raw_by_norm is an element of lesson_names.
C12_CatalogMembership ==
    pc = "catalog_done" =>
        \A key \in DOMAIN catalog.raw_by_norm :
            \E k \in 1..Len(catalog.lesson_names) : catalog.lesson_names[k] = key

\* a catalog of two lessons, one of them spelled in the legend otherwise
\* than its key
C12_Witness ==
    /\ pc = "catalog_done"
    /\ Cardinality(DOMAIN catalog.raw_by_norm) = 2
    /\ \E key \in DOMAIN catalog.raw_by_norm : catalog.raw_by_norm[key] # key

(***************************************************************************)
(* The Text Normalizer on its own (specification SpecNorm)                 *)
(***************************************************************************)
\* spaces, non-breaking spaces, other whitespace, letters
NormAlphabet == {" ", "nbsp", "\t", "\n", "a", "B"}

\* longest string that is normalised
MaxNormLen == 4

NormTexts == UNION {[1..n -> NormAlphabet] : n \in 0..MaxNormLen}

InitNorm ==
    /\ pc = "norm_input"
    /\ NoDocument /\ NoApp /\ NoMerge /\ NoMatch
    /\ cell_text \in NormTexts
    /\ lesson_name = None

\* one call of _norm
Normalize ==
    /\ pc = "norm_input"
    /\ lesson_name' = _norm(cell_text)
    /\ pc' = "norm_done"
    /\ UNCHANGED cell_text
    /\ UNCHANGED <<docVars, appVars, matchVars>>
    /\ UNCHANGED mergeVars

NextNorm == Normalize

SpecNorm == InitNorm /\ [][NextNorm]_vars

\* C13: normalization idempotence.  For every string s over spaces,
\* non-breaking spaces, other whitespace and letters, _norm(_norm(s)) is
\* _norm(s); _norm(s) has no leading or trailing space, no non-breaking
\* space and no two whitespace characters in a row; _norm("") is "".
C13_NormIdempotent ==
    pc = "norm_done" =>
        /\ _norm(lesson_name) = lesson_name
        /\ lesson_name # <<>> =>
               /\ lesson_name[1] \notin WhitespaceChars
               /\ lesson_name[Len(lesson_name)] \notin WhitespaceChars
        /\ \A k \in 1..Len(lesson_name) : lesson_name[k] # "nbsp"
        /\ \A k \in 1..(Len(lesson_name) - 1) :
               ~(lesson_name[k] \in WhitespaceChars
                 /\ lesson_name[k + 1] \in WhitespaceChars)
        /\ cell_text = <<>> => lesson_name = <<>>

\* a string with a run of two different whitespace characters between two
\* letters was normalised to the letters with one space between them
C13_Witness ==
    /\ pc = "norm_done"
    /\ cell_text = <<"a", "\t", "nbsp", "B">>
    /\ lesson_name = <<"a", " ", "B">>

(***************************************************************************)
(* Pool collection and the resolver on a pool that was not collected       *)
(* (specification SpecPool)                                                *)
(***************************************************************************)
\* the string of BLACKLIST_TEACHER_NAMES
sCorrupted == CHOOSE name \in BLACKLIST_TEACHER_NAMES : TRUE

sEla_Kaya == <<"E", "l", "a", " ", "K", "a", "y", "a">>

sALI_ALANB == <<"A", "L", "I", " ", "A", "L", "A", "N", "B">>

\* the parts a legend teacher cell is made of: two names, a name without a
\* space, with a digit, with a room word, with a full stop, of four
\* characters, and the corrupted string
PoolFragments ==
    {sALI_KAYA, sEla_Kaya, <<"A", "L", "I">>,
     <<"A", "L", " ", "1", "A">>,
     <<"L", "A", "B", " ", "K", "A", "Y", "A">>,
     <<"A", ".", " ", "K", "A", "Y", "A">>,
     <<"A", " ", "K", "A">>, sCorrupted}

\* most parts of one legend teacher cell
MaxCellNames == 2

\* what stands between two parts of a legend teacher cell
CellJoiners == {<<",", " ">>, <<"\n">>}

\* a page whose legend has one row, its teacher cell the parts joined by sep
PoolDocument(parts, sep) ==
    << [tables |-> << <<>>,
                      <<LegendHeader, <<sMATEMATIK, Join(parts, sep), <<>> >> >> >>,
        text |-> <<>>] >>

PoolDocuments ==
    {PoolDocument(parts, sep) :
        parts \in UNION {[1..n -> PoolFragments] : n \in 0..MaxCellNames},
        sep \in CellJoiners}

\* pools handed to the resolver: they may hold the corrupted string
GivenPools ==
    UNION {Orderings(S) : S \in SUBSET {sCorrupted, sALI_ALANB} \ {{}}}

\* fragments to resolve: the corrupted string, the same without its last
\* character, its last word, a name
GivenCandidates ==
    {sCorrupted, SubSeq(sCorrupted, 1, Len(sCorrupted) - 1),
     <<"A", "L", "A", "N", "B">>, sALI_KAYA}

InitPool ==
    /\ pc = "pool_input"
    /\ pdf \in PoolDocuments
    /\ ci = 0
    /\ names = {}
    /\ known_teacher_names = <<>>
    /\ i = 0
    /\ catalog = None
    /\ week_table = <<>>
    /\ schedule = <<>>
    /\ teacher_schedules_page = EmptyFunction
    /\ class_schedules = EmptyFunction
    /\ teacher_schedules_all = EmptyFunction
    /\ resolved_with = <<>>
    /\ NoApp /\ NoMerge /\ NoCell
    /\ candidate \in GivenCandidates
    /\ known_names \in GivenPools
    /\ best = None

\* one call of collect_known_teacher_names: the loop over pdf.pages, then
\* names -= BLACKLIST_TEACHER_NAMES; the set is met in some order
CollectKnownTeacherNames ==
    /\ pc = "pool_input"
    /\ names' = UNION {PageTeacherNames(pdf[k]) : k \in 1..Len(pdf)}
    /\ \E order \in Orderings(names' \ BLACKLIST_TEACHER_NAMES) :
           known_teacher_names' = order
    /\ ci' = Len(pdf) + 1
    /\ pc' = "pool_done"
    /\ UNCHANGED <<pdf, i, catalog, week_table, schedule,
                   teacher_schedules_page, class_schedules,
                   teacher_schedules_all, resolved_with>>
    /\ UNCHANGED <<appVars, matchVars, cellVars>>
    /\ UNCHANGED mergeVars

\* one call of _best_teacher_name_match on the given pool
ResolveOnGivenPool ==
    /\ pc = "pool_done"
    /\ best' = _best_teacher_name_match(candidate, known_names)
    /\ pc' = "resolved"
    /\ UNCHANGED <<candidate, known_names>>
    /\ UNCHANGED <<docVars, appVars, cellVars>>
    /\ UNCHANGED mergeVars

NextPool == CollectKnownTeacherNames \/ ResolveOnGivenPool

SpecPool == InitPool /\ [][NextPool]_vars

RoomWords ==
    {WordLAB, WordSINIF, WordDERSLIK_dotted, WordDERSLIK_plain, WordATOLYE}

\* the plausible-full-name conditions, on the normalised upper-case name
PlausibleFullName(up) ==
    /\ \A k \in 1..Len(up) : up[k] \notin Digits
    /\ \A w \in Range(Split(up)) : w \notin RoomWords
    /\ \E k \in 1..Len(up) : up[k] = " "
    /\ \A k \in 1..Len(up) : up[k] \in UpperAscii \cup UpperTurkish \cup {" "}
    /\ Len(up) >= 5

\* C14: pool admission.  Every name of the pool collect_known_teacher_names
\* returns passes _is_probable_full_teacher_name (no digit, no room word, a
\* space, only letters and spaces, five characters or more) and is not in
\* BLACKLIST_TEACHER_NAMES; _best_teacher_name_match never returns a string
\* of BLACKLIST_TEACHER_NAMES, also when its pool holds one.
C14_PoolAdmission ==
    /\ pc \in {"pool_done", "resolved"} =>
           \A k \in 1..Len(known_teacher_names) :
               /\ _is_probable_full_teacher_name(known_teacher_names[k])
               /\ PlausibleFullName(_norm_upper(known_teacher_names[k]))
               /\ known_teacher_names[k] \notin BLACKLIST_TEACHER_NAMES
    /\ pc = "resolved" => best \notin BLACKLIST_TEACHER_NAMES

\* a cell of the corrupted string and a name gave a pool of the name alone,
\* and the corrupted string was resolved on a pool that holds it and got a
\* name of that pool
C14_Witness ==
    /\ pc = "resolved"
    /\ pdf = PoolDocument(<<sCorrupted, sEla_Kaya>>, <<",", " ">>)
    /\ known_teacher_names = <<sEla_Kaya>>
    /\ candidate = sCorrupted
    /\ known_names = <<sCorrupted, sALI_ALANB>>
    /\ best = sALI_ALANB

\* the legend teacher cell of a one-row legend
TeacherCellOf(document) == document[1].tables[2][2][2]

\* the non-empty normalised parts of a cell split at the given characters
FragmentsOf(raw_teachers, separators) ==
    {_norm(part) : part \in Range(SplitOn(raw_teachers, separators))} \ {<<>>}

\* C15: pool collection splits each legend teacher cell on comma and on
\* newline.  The fragments the pool is built from are those
\* extract_lesson_teacher_map derives from the same cell, so the pool is the
\* set of the plausible full names among them: two names on two lines give
\* two pool entries, as two names around a comma do, and never one entry that
\* holds both.
C15_PoolSplitsOnNewline ==
    pc \in {"pool_done", "resolved"} =>
        /\ FragmentsOf(TeacherCellOf(pdf), PoolSeparators)
               = FragmentsOf(TeacherCellOf(pdf), MapSeparators)
        /\ Range(known_teacher_names)
               = {name \in FragmentsOf(TeacherCellOf(pdf), MapSeparators) :
                     _is_probable_full_teacher_name(name)}
                 \ BLACKLIST_TEACHER_NAMES

\* two names on two lines of one cell became one pool entry
C15_Concatenated ==
    /\ pc = "pool_done"
    /\ pdf = PoolDocument(<<sALI_KAYA, sEla_Kaya>>, <<"\n">>)
    /\ known_teacher_names = <<sALI_KAYA \o <<" ">> \o sEla_Kaya>>

(***************************************************************************)
(* One page with a grid of any rows (specification SpecGrid)               *)
(***************************************************************************)
sBEDEN == <<"B", "E", "D", "E", "N">>

sKIMYA == <<"K", "I", "M", "Y", "A">>

\* a legend of a lesson with two teachers, a lesson with one of them, a
\* lesson without a teacher
LegendJ ==
    <<LegendHeader,
      <<sMATEMATIK, sAHMET_YILMAZ \o <<",", " ">> \o sELIF_KAYA, <<"1", "0", "1">> >>,
      <<sFIZIK, sELIF_KAYA, <<>> >>,
      <<sBEDEN, <<>>, <<>> >> >>

\* a cell as the grid prints it: lesson, teacher, room
CellM == sMATEMATIK \o <<"\n">> \o sAHMET_YILMAZ \o <<"\n", "1", "0", "1">>

\* the lesson with a plain I in place of the dotted one
CellM_plain == <<"M", "A", "T", "E", "M", "A", "T", "I", "K">>

EightBlanks == <<<<>>, None, <<>>, <<>>, <<>>, <<>>, <<>>, <<>> >>

\* the period cells of a grid row: one lesson, blanks only, a lesson without
\* teachers and a lesson the legend does not have, two lessons of one
\* teacher, a lesson in period 9 and one in period 10
GridCellRuns ==
    {<<CellM>>,
     <<None, <<" ">> >>,
     <<sBEDEN, sKIMYA>>,
     <<sFIZIK, CellM_plain>>,
     EightBlanks \o <<sFIZIK, CellM>>}

\* a weekday label with white space around it
sSali_padded == <<" ">> \o DAY_NAMES[2] \o <<"nbsp">>

\* grid rows: an empty row, a row without a label, a weekend row, rows of
\* a second weekday, rows of the first weekday with each run of cells
GridRowsIn ==
    {<<>>, <<None, CellM>>, <<DAY_NAMES[6], CellM>>,
     <<sSali_padded, CellM>>, <<sSali_padded, sFIZIK, CellM_plain>>}
        \cup {<<sPazartesi>> \o run : run \in GridCellRuns}

\* most rows of a week grid
MaxGridRows == 2

GridPages ==
    {[tables |-> <<grid, LegendJ>>, text |-> <<"9", "/", "A">>] :
        grid \in UNION {[1..n -> GridRowsIn] : n \in 0..MaxGridRows}}

\* _process_uploaded_pdf_impl at the start of its page loop, the pool
\* collected from the one page of the document
InitGrid ==
    /\ pc = "pages"
    /\ \E page \in GridPages :
           /\ pdf = <<page>>
           /\ names = PageTeacherNames(page)
    /\ known_teacher_names \in Orderings(names \ BLACKLIST_TEACHER_NAMES)
    /\ ci = 2
    /\ i = 1
    /\ catalog = None
    /\ week_table = <<>>
    /\ schedule = <<>>
    /\ teacher_schedules_page = EmptyFunction
    /\ class_schedules = EmptyFunction
    /\ teacher_schedules_all = EmptyFunction
    /\ resolved_with = <<>>
    /\ NoApp /\ NoMerge /\ NoMatch /\ NoCell

NextGrid == PageProcessed \/ PageSkipped

SpecGrid == InitGrid /\ [][NextGrid]_vars

\* the page the loop has just processed, its map and its class name
GridPage == pdf[i - 1]

GridMap == extract_lesson_teacher_map(GridPage, catalog, known_teacher_names)

GridClass == ClassNameOf(pdf, i - 1)

\* the rows of the grid labelled with the weekday d, in grid row order
RowsOfDay(d) ==
    SelectSeq([r \in 1..Len(week_table) |-> r],
              LAMBDA r : /\ week_table[r] # <<>>
                         /\ week_table[r][1] \notin {None, <<>>}
                         /\ _norm(week_table[r][1]) = d)

\* a period cell that is blank or missing
NoLesson == [populated |-> FALSE, lesson |-> <<>>, teachers |-> {}]

\* the lesson a resolved name stands for and the teachers of its lookup key
LessonOfName(name, matched, map) ==
    [populated |-> TRUE,
     lesson |-> IF matched \in {None, <<>>} THEN name ELSE matched,
     teachers |->
         IF _norm_upper(IF matched \in {None, <<>>} THEN name ELSE matched)
                \in DOMAIN map
         THEN map[_norm_upper(IF matched \in {None, <<>>} THEN name ELSE matched)]
         ELSE {}]

\* what a resolved name stands for
LessonOfResolved(name, map) ==
    IF _norm(name) = <<>> THEN NoLesson
    ELSE LessonOfName(name, best_lesson_match(catalog, name), map)

\* what the p-th period cell of row r stands for
LessonAt(r, p, map) ==
    IF p + 1 > Len(week_table[r]) THEN NoLesson
    ELSE LessonOfResolved(
             extract_lesson_name_from_cell(OrEmpty(week_table[r][p + 1]), catalog),
             map)

\* every period cell of the grid, periods 1 to 9
LessonTable(map) ==
    [r \in 1..Len(week_table) |-> [p \in 1..9 |-> LessonAt(r, p, map)]]

\* the join: the entries of teacher t on day d in period p
JoinedEntries(t, d, p, table, class_name) ==
    [k \in 1..Len(SelectSeq(RowsOfDay(d), LAMBDA r : t \in table[r][p].teachers)) |->
        <<table[SelectSeq(RowsOfDay(d), LAMBDA r : t \in table[r][p].teachers)[k]][p].lesson,
          class_name>>]

\* the teachers of the populated cells of the weekday rows
JoinedTeachers(table) ==
    UNION {table[r][p].teachers :
              r \in UNION {Range(RowsOfDay(d)) : d \in WeekDaySet}, p \in 1..9}

\* a schedule is the join of the table
IsJoin(teacher_schedules, table, class_name) ==
    /\ DOMAIN teacher_schedules = JoinedTeachers(table)
    /\ \A t \in DOMAIN teacher_schedules :
           /\ DOMAIN teacher_schedules[t] = WeekDaySet
           /\ \A d \in WeekDaySet :
                  /\ DOMAIN teacher_schedules[t][d] = 1..9
                  /\ \A p \in 1..9 :
                         teacher_schedules[t][d][p]
                             = JoinedEntries(t, d, p, table, class_name)

GridProcessed == pc = "pages" /\ i = 2 /\ week_table # <<>>

\* C16: build_teacher_schedules gives exactly the join of grid and map.  The
\* list at teacher t, day d, period p holds one (lesson, class_name) entry
\* for each grid row labelled d whose p-th period cell (p in 1..9) resolves
\* to a non-blank lesson whose lookup key has t among its teachers, in grid
\* row order, and nothing else; a populated cell whose key has no teachers
\* adds no entry and no teacher, and columns after the ninth are ignored.
C16_TeacherSchedulesAreJoin ==
    GridProcessed =>
        \E table \in {LessonTable(GridMap)} :
            IsJoin(teacher_schedules_page, table, GridClass)

\* two rows of one weekday gave a teacher two entries in one period, in grid
\* row order
C16_Witness ==
    /\ GridProcessed
    /\ week_table = << <<sPazartesi, CellM>>, <<sPazartesi, sFIZIK, CellM_plain>> >>
    /\ teacher_schedules_page[sELIF_KAYA][sPazartesi][1]
           = << <<sMATEMATIK, <<"9", "/", "A">> >>, <<sFIZIK, <<"9", "/", "A">> >> >>

\* a lesson in the tenth period column was left out, and a lesson without
\* teachers made no entry
C16_WitnessTenth ==
    /\ GridProcessed
    /\ week_table = << <<sPazartesi>> \o EightBlanks \o <<sFIZIK, CellM>>,
                       <<sPazartesi, sBEDEN, sKIMYA>> >>
    /\ DOMAIN teacher_schedules_page = {sELIF_KAYA}
    /\ teacher_schedules_page[sELIF_KAYA][sPazartesi][9] = << <<sFIZIK, <<"9", "/", "A">> >> >>
    /\ teacher_schedules_page[sELIF_KAYA][sPazartesi][1] = <<>>

(***************************************************************************)
(* bestMatch selection (specification SpecBest)                            *)
(***************************************************************************)
\* the positions of lesson_names whose score against cand no other beats
TopPositions(lesson_names, cand) ==
    {k \in 1..Len(lesson_names) :
        \A j \in 1..Len(lesson_names) :
            ScoreAtLeast(_similar(cand, lesson_names[k]),
                         _similar(cand, lesson_names[j]))}

\* the name in the legend's spelling
SpelledAs(name, raw_by_norm) ==
    IF name \in DOMAIN raw_by_norm THEN raw_by_norm[name] ELSE name

\* the first of the highest-scoring lesson names when its score is 0.60 or
\* more, no match otherwise
SelectedLesson(lesson_names, raw_by_norm, cand) ==
    IF lesson_names = <<>> THEN None
    ELSE IF AtLeast(_similar(cand, lesson_names[MinOf(TopPositions(lesson_names, cand))]),
                    60, 100)
         THEN SpelledAs(lesson_names[MinOf(TopPositions(lesson_names, cand))],
                        raw_by_norm)
         ELSE None

\* the lesson resolver returned the selection
LessonSelectionHolds ==
    (pc = "lesson_done" /\ _norm_upper(candidate) # <<>>) =>
        best = SelectedLesson(catalog.lesson_names, catalog.raw_by_norm,
                              _norm_upper(candidate))

\* the teacher resolver returns the same name whatever the order in which
\* the pool is met
TeacherResultIsOrderFree ==
    pc = "teacher_done" =>
        \A order \in Orderings(Range(known_names)) :
            _best_teacher_name_match(candidate, order) = best

\* C17: bestMatch selection.  For a non-empty normalised candidate
\* best_lesson_match returns the lesson name of the highest score when that
\* score is 0.60 or more (0.60 included) and None otherwise, the first one
\* met among equal highest scores; for the same candidate and the same set
\* of choices the result is the same on every call, for lesson names and for
\* teacher names from the pool.
C17_BestMatchSelection == LessonSelectionHolds /\ TeacherResultIsOrderFree

\* two pool names score 0.875 against the candidate and share its surname:
\* the one met first was returned
C17_TieByOrder ==
    /\ pc = "teacher_done"
    /\ candidate = sALI_KAYA
    /\ known_names = <<sALU_KAYA, sALA_KAYA>>
    /\ best = sALU_KAYA

(***************************************************************************)
(* The line classifiers on their own (specification SpecLine)              *)
(***************************************************************************)
\* the tokens of a line: a place of the legend, a word the legend does not
\* have, the room word
LineTokens == {<<"1", "A">>, <<"X">>, WordLAB}

\* most tokens of a line
MaxLineTokens == 7

\* lines whose LAB is or is not a word of its own, in either case, and a
\* room word that is not LAB
SpecialLines ==
    {<<"L", "A", "B", "S">>, <<"X", "-", "L", "A", "B">>, <<"l", "a", "b">>,
     <<"X", " ", "L", "A", "B", "2">>, WordSINIF, <<"S", "I", "N", "I", "F", "-", "2">>}

\* the lines handed to the classifiers: normalised, as extract_lesson_name_from_cell
\* passes them
Lines ==
    {Join(tokens, <<" ">>) :
        tokens \in UNION {[1..n -> LineTokens] : n \in 0..MaxLineTokens}}
    \cup SpecialLines

\* catalogs with and without the place 1A
LineCatalogs ==
    {extract_catalog_from_bottom_table([tables |-> << <<>>, legend>>, text |-> <<>>]) :
        legend \in {LegendL1, LegendL3}}

InitLine ==
    /\ pc = "line_input"
    /\ pdf = <<>>
    /\ ci = 0
    /\ names = {}
    /\ known_teacher_names = <<>>
    /\ i = 0
    /\ catalog \in LineCatalogs
    /\ week_table = <<>>
    /\ schedule = <<>>
    /\ teacher_schedules_page = EmptyFunction
    /\ class_schedules = EmptyFunction
    /\ teacher_schedules_all = EmptyFunction
    /\ resolved_with = <<>>
    /\ NoApp /\ NoMerge /\ NoMatch
    /\ cell_text \in Lines
    /\ lesson_name = None

\* the test of the scan loop on one line: _is_probably_teacher_line(line,
\* catalog), _is_probably_location_line(line, catalog)
ClassifyLine ==
    /\ pc = "line_input"
    /\ lesson_name' =
           [teacher_line |-> _is_probably_teacher_line(cell_text, catalog),
            location_line |-> _is_probably_location_line(cell_text, catalog)]
    /\ pc' = "line_done"
    /\ UNCHANGED cell_text
    /\ UNCHANGED <<docVars, appVars, matchVars>>
    /\ UNCHANGED mergeVars

NextLine == ClassifyLine

SpecLine == InitLine /\ [][NextLine]_vars

\* the tokens of the classified line
LineWords == Split(_norm_upper(cell_text))

\* how many of them are location words of the catalog
KnownLocationWords ==
    Cardinality({k \in 1..Len(LineWords) : LineWords[k] \in catalog.location_words})

\* the line has the word LAB
HasWordLAB == SearchWord(_norm_upper(cell_text), WordLAB)

\* C18 as stated: a non-empty line is a location line if and only if it
\* matches the room-keyword pattern, or it has at most 6 tokens and at
\* least tokenCount - 1 of them are location words (a line of one token
\* needs none).
C18_LocationRuleAsStated ==
    (pc = "line_done" /\ cell_text # <<>>) =>
        (lesson_name.location_line <=>
            \/ HasWordLAB
            \/ /\ Len(LineWords) <= 6
               /\ KnownLocationWords >= Len(LineWords) - 1)

\* C18 amended: a non-empty line is a location line if and only if it has
\* the word LAB, or it has at most 6 tokens and at least
\* max(1, tokenCount - 1) of them are location words: a line of one token
\* needs that token to be a location word.
C18_LocationRule ==
    (pc = "line_done" /\ cell_text # <<>>) =>
        (lesson_name.location_line <=>
            \/ HasWordLAB
            \/ /\ Len(LineWords) <= 6
               /\ KnownLocationWords >= Len(LineWords) - 1
               /\ KnownLocationWords >= 1)

\* a line of one token that is no location word was not taken for a location
\* line
C18_Witness ==
    /\ pc = "line_done"
    /\ cell_text = <<"X">>
    /\ ~lesson_name.location_line

(***************************************************************************)
(* The scan of a cell of several lines (specification SpecScan)            *)
(***************************************************************************)
\* the lines of a cell: two lesson words, a teacher word and a place of the
\* legend, a line with the room word, a blank line, a word in small letters
\* with a number, a number
ScanLines ==
    {<<"A">>, <<"X", "nbsp", "Y">>, <<"B", "B">>, <<"1", "A">>,
     <<"X", " ", "L", "A", "B">>, <<" ">>, <<"x", " ", "7">>, <<"7">>}

\* most lines of a cell
MaxCellLines == 3

ScanTexts ==
    {Join(lines, <<"\n">>) :
        lines \in UNION {[1..n -> ScanLines] : n \in 0..MaxCellLines}}

InitScan ==
    /\ pc = "scan_input"
    /\ pdf = <<>>
    /\ ci = 0
    /\ names = {}
    /\ known_teacher_names = <<>>
    /\ i = 0
    /\ catalog \in LineCatalogs
    /\ week_table = <<>>
    /\ schedule = <<>>
    /\ teacher_schedules_page = EmptyFunction
    /\ class_schedules = EmptyFunction
    /\ teacher_schedules_all = EmptyFunction
    /\ resolved_with = <<>>
    /\ NoApp /\ NoMerge /\ NoMatch
    /\ cell_text \in ScanTexts
    /\ lesson_name = None

\* one call of extract_lesson_name_from_cell, its local candidate kept: None
\* when the call returns before the scan
ScanCell ==
    /\ pc = "scan_input"
    /\ candidate' =
           IF cell_text = <<>> \/ CellLines(cell_text) = <<>> THEN None
           ELSE CandidateOf(CellLines(cell_text), catalog)
    /\ lesson_name' = extract_lesson_name_from_cell(cell_text, catalog)
    /\ pc' = "scan_done"
    /\ UNCHANGED <<cell_text, known_names, best>>
    /\ UNCHANGED <<docVars, appVars>>
    /\ UNCHANGED mergeVars

NextScan == ScanCell

SpecScan == InitScan /\ [][NextScan]_vars

\* the non-blank lines of the cell, normalised
NonBlankLines ==
    SelectSeq([k \in 1..Len(SplitLines(cell_text)) |-> _norm(SplitLines(cell_text)[k])],
              LAMBDA l : l # <<>>)

\* line k is a teacher line or a location line
IsBreak(k) ==
    \/ _is_probably_teacher_line(NonBlankLines[k], catalog)
    \/ _is_probably_location_line(NonBlankLines[k], catalog)

\* the number of lines before the first break
LinesBeforeBreak ==
    IF \E k \in 1..Len(NonBlankLines) : IsBreak(k)
    THEN (CHOOSE k \in 1..Len(NonBlankLines) :
              IsBreak(k) /\ \A j \in 1..(k - 1) : ~IsBreak(j)) - 1
    ELSE Len(NonBlankLines)

\* C19: the scan stops at the first break.  When the first non-blank line of
\* a cell is neither a teacher line nor a location line, the candidate is
\* the single-space join of exactly the lines before the first teacher line
\* or location line; no line at or after it contributes, also not a later
\* line that is neither.
C19_ScanStopsAtFirstBreak ==
    (pc = "scan_done" /\ NonBlankLines # <<>> /\ ~IsBreak(1)) =>
        candidate = Join(SubSeq(NonBlankLines, 1, LinesBeforeBreak), <<" ">>)

\* a lesson line, a teacher line and one more lesson line: the candidate is
\* the first line
C19_Witness ==
    /\ pc = "scan_done"
    /\ cell_text = <<"A", "\n", "B", "B", "\n", "X", "nbsp", "Y">>
    /\ _is_probably_teacher_line(<<"B", "B">>, catalog)
    /\ candidate = <<"A">>

(***************************************************************************)
(* make_simplified_schedule (specification SpecGrid)                       *)
(***************************************************************************)
\* the rows of the grid whose label is a weekday, in grid row order
WeekdayRows ==
    SelectSeq([r \in 1..Len(week_table) |-> r],
              LAMBDA r : /\ week_table[r] # <<>>
                         /\ week_table[r][1] \notin {None, <<>>}
                         /\ _norm(week_table[r][1]) \in WeekDaySet)

\* the resolved names of all period cells of row r, in column order
ResolvedRow(r) ==
    [p \in 1..(Len(week_table[r]) - 1) |->
        extract_lesson_name_from_cell(OrEmpty(week_table[r][p + 1]), catalog)]

\* the period cells of row r that are not blank
NonBlankCells(r) ==
    {p \in 1..(Len(week_table[r]) - 1) : _norm(OrEmpty(week_table[r][p + 1])) # <<>>}

\* entry is the (day, lessons) entry of row r
IsEntryOfRow(entry, r, resolved) ==
    /\ entry[1] = _norm(week_table[r][1])
    /\ entry[2] = SelectSeq(resolved, LAMBDA l : _norm(l) # <<>>)
    /\ Len(entry[2]) = Cardinality(NonBlankCells(r))

\* sched has one entry per row of rows, in their order
IsSimplifiedOf(sched, rows) ==
    /\ Len(sched) = Len(rows)
    /\ \A k \in 1..Len(rows) :
           \E resolved \in {ResolvedRow(rows[k])} :
               IsEntryOfRow(sched[k], rows[k], resolved)

\* C20: make_simplified_schedule returns exactly one (day, lessons) entry per
\* grid row whose label is a weekday, in grid row order (an entry with an
\* empty list for a weekday row of blank cells, one entry per row when a
\* weekday repeats); lessons is the sequence of the resolved names of all
\* period cells of the row in column order without the blank results, as
\* many as the row has non-blank period cells.
C20_SimplifiedSchedule ==
    GridProcessed => IsSimplifiedOf(schedule, WeekdayRows)

\* a weekday twice, once with blank cells only and once with lessons in
\* periods 9 and 10
C20_Witness ==
    /\ GridProcessed
    /\ week_table = << <<sPazartesi, None, <<" ">> >>,
                       <<sPazartesi>> \o EightBlanks \o <<sFIZIK, CellM>> >>
    /\ schedule = << <<sPazartesi, <<>> >>, <<sPazartesi, <<sFIZIK, sMATEMATIK>> >> >>

(***************************************************************************)
(* First occurrence of a lesson name (specification SpecCatalog)           *)
(***************************************************************************)
\* the legend the catalog was built from
LegendOf(document) == document[1].tables[2]

\* the lesson cell of row r of the legend, normalised; "" when the row has
\* no lesson cell
LessonCellAt(bottom, r) ==
    IF bottom[r] = <<>> \/ get_col(HeaderOf(bottom), ColDersinAdi) = NoCol
       \/ get_col(HeaderOf(bottom), ColDersinAdi) > Len(bottom[r])
    THEN <<>>
    ELSE _norm(OrEmpty(bottom[r][get_col(HeaderOf(bottom), ColDersinAdi)]))

\* the rows below the header whose lesson name has the normalised form key
RowsWithKey(bottom, key) ==
    {r \in 2..Len(bottom) :
        LessonCellAt(bottom, r) # <<>> /\ _norm_upper(LessonCellAt(bottom, r)) = key}

\* C21: first occurrence wins.  When several legend rows have lesson names
\* of the same normalised upper-case form, raw_by_norm maps that form to the
\* name of the first such row in table order, later rows do not change it,
\* and lesson_names holds the form once.
C21_FirstOccurrenceWins ==
    pc = "catalog_done" =>
        \A key \in {_norm_upper(LessonCellAt(LegendOf(pdf), r)) :
                       r \in 2..Len(LegendOf(pdf))} \ {<<>>} :
            /\ key \in DOMAIN catalog.raw_by_norm
            /\ catalog.raw_by_norm[key]
                   = LessonCellAt(LegendOf(pdf), MinOf(RowsWithKey(LegendOf(pdf), key)))
            /\ Cardinality({k \in 1..Len(catalog.lesson_names) :
                               catalog.lesson_names[k] = key}) = 1

\* two rows of one normalised form in two spellings: the first spelling is
\* kept
C21_Witness ==
    /\ pc = "catalog_done"
    /\ LegendOf(pdf) = << <<ColDersinAdi>>, << <<"a", " ", "b">> >>,
                          << <<"a", "\n", "B">> >> >>
    /\ catalog.lesson_names = << <<"A", " ", "B">> >>
    /\ catalog.raw_by_norm[<<"A", " ", "B">>] = <<"a", " ", "b">>

(***************************************************************************)
(* The return without a match (specification SpecScan)                     *)
(***************************************************************************)
\* no lesson name of the catalog scores 0.60 or more against the candidate
NoLessonReaches ==
    \A k \in 1..Len(catalog.lesson_names) :
        ~AtLeast(_similar(_norm_upper(candidate), catalog.lesson_names[k]), 60, 100)

\* the token is a teacher word, a location word or a number
IsStripped(w) ==
    \/ w \in catalog.teacher_words
    \/ w \in catalog.location_words
    \/ (w # <<>> /\ \A k \in 1..Len(w) : w[k] \in Digits)

\* the tokens that stay, joined by single spaces; the text itself when none
\* stays
StrippedOr(tokens, text) ==
    IF SelectSeq(tokens, LAMBDA w : ~IsStripped(w)) = <<>> THEN text
    ELSE Join(SelectSeq(tokens, LAMBDA w : ~IsStripped(w)), <<" ">>)

\* C22: no-match fallback.  When no lesson name of the catalog reaches the
\* threshold for the candidate, extract_lesson_name_from_cell returns the
\* candidate's tokens, in order and joined by single spaces, without the
\* tokens that are a teacher word, a location word or a number; when no
\* token stays it returns the candidate unchanged.
C22_NoMatchFallback ==
    (pc = "scan_done" /\ candidate # None /\ NoLessonReaches) =>
        lesson_name = StrippedOr(Split(candidate), candidate)

\* the same with the tokens of the upper-cased candidate: what the code
\* returns
FallbackOnUpperCase ==
    (pc = "scan_done" /\ candidate # None /\ NoLessonReaches) =>
        lesson_name = StrippedOr(Split(_norm_upper(candidate)), candidate)

\* a token in small letters came back in capitals
C22_UpperCased ==
    /\ pc = "scan_done"
    /\ cell_text = <<"x", " ", "7">>
    /\ candidate = <<"x", " ", "7">>
    /\ lesson_name = <<"X">>

(***************************************************************************)
(* Teacher identities and the pool (specification Spec)                    *)
(***************************************************************************)
\* the pool of the document that is being processed
DocumentPool == Range(known_teacher_names)

\* the name fragments of the teacher cells of a legend: the non-empty parts
\* between commas and line ends
LegendFragments(page) ==
    UNION {{_norm(part) : part \in Range(SplitOn(cell, {",", "\n"}))} \ {<<>>} :
              cell \in TeacherColumnCells(page)}

\* the matches of the fragments of a legend in a pool
FragmentMatches(page, pool) ==
    {_best_teacher_name_match(f, pool) : f \in LegendFragments(page)}

\* the teachers of a lesson -> teachers map
TeachersOfMap(map) == UNION {map[key] : key \in DOMAIN map}

\* matches are pool names or None, and the teachers of the map are the
\* matches that are names
MapComesFromPool(matches, map, pool) ==
    /\ matches \subseteq pool \cup {None}
    /\ TeachersOfMap(map) \subseteq matches \ {None}
    /\ TeachersOfMap(map) \subseteq pool

\* C23: teacher identities come from the pool.  _best_teacher_name_match
\* returns None or a name of the pool it is given and leaves the pool as it
\* is; so, when the pool of the document is not empty, every teacher of the
\* lesson -> teachers map of a page, every teacher key of the page's teacher
\* schedules and of the document's aggregate is a name of the pool, and a
\* fragment without a match is assigned to no teacher.
C23_TeachersFromPool ==
    (pc = "pages" /\ known_teacher_names # <<>>) =>
        /\ DOMAIN teacher_schedules_page \subseteq DocumentPool
        /\ DOMAIN teacher_schedules_all \subseteq DocumentPool
        /\ \A k \in 1..Len(resolved_with) : resolved_with[k].pool = DocumentPool
        /\ PageJustProcessed =>
               \E matches \in {FragmentMatches(pdf[i - 1], known_teacher_names)} :
                   MapComesFromPool(
                       matches,
                       extract_lesson_teacher_map(pdf[i - 1], catalog,
                                                  known_teacher_names),
                       DocumentPool)

\* a page whose legend names a teacher of the pool and a truncated name that
\* matches no pool name: the page's schedules hold the pool name only
C23_Witness ==
    /\ PageJustProcessed
    /\ pdf[i - 1] = PageB
    /\ DocumentPool = {sELIF_KAYA}
    /\ _best_teacher_name_match(sA_YILMAZ, known_teacher_names) = None
    /\ DOMAIN teacher_schedules_page = {sELIF_KAYA}

(***************************************************************************)
(* The merge loop and the objects it shares (specification SpecMerge)      *)
(***************************************************************************)
\* the by_day dicts of a schedule that build_teacher_schedules returns: one
\* new object for every teacher of the k-th source
ObjectsOf(k, source) ==
    [o \in {<<k, t>> : t \in DOMAIN source} |-> source[o[2]]]

\* target[teacher] = by_day: the target holds the source's own dict for a
\* teacher it did not have; the other teachers keep their object
AssignObjects(objects, k, teachers) ==
    [t \in DOMAIN objects \cup teachers |->
        IF t \in DOMAIN objects THEN objects[t] ELSE <<k, t>>]

\* the else branch: the dict that the target holds for a teacher of the
\* source is extended in place
ExtendObjects(h, objects, source) ==
    [o \in DOMAIN h |->
        IF o[2] \in DOMAIN source /\ o[2] \in DOMAIN objects /\ objects[o[2]] = o
        THEN MergeInto(h[o], source[o[2]])
        ELSE h[o]]

\* number of schedules merged into one target
MaxMerges == 3

s9A == <<"9", "/", "A">>
s9B == <<"9", "/", "B">>

\* the schedule of a page with one lesson hour
ScheduleOf(teachers, day, idx, entry) ==
    AppendForTeachers(EmptyFunction, teachers, day, idx, entry)

\* teacher schedules of pages: the same teacher in two classes at the same
\* hour and at another hour, two teachers of one lesson, no teacher
MergeSources ==
    {ScheduleOf({sELIF_KAYA}, WEEK_DAYS[1], 1, <<sBEDEN, s9A>>),
     ScheduleOf({sELIF_KAYA}, WEEK_DAYS[1], 1, <<sKIMYA, s9B>>),
     ScheduleOf({sELIF_KAYA, sALI_ALANB}, WEEK_DAYS[2], 2, <<sBEDEN, s9B>>),
     ScheduleOf({sALI_ALANB}, WEEK_DAYS[1], 1, <<sKIMYA, s9A>>),
     EmptyFunction}

InitMerge ==
    /\ pc = "merging"
    /\ NoDocument /\ NoApp /\ NoMerge /\ NoMatch /\ NoCell

\* one pass of the merge loop over the teachers of a schedule that was just
\* built
MergeSchedules ==
    /\ pc = "merging"
    /\ Len(held) < MaxMerges
    /\ \E source \in MergeSources :
          /\ held' = Append(held, source)
          /\ teacher_objects' =
                 AssignObjects(teacher_objects, Len(held) + 1, DOMAIN source)
          /\ heap' = ExtendObjects(heap @@ ObjectsOf(Len(held) + 1, source),
                                   teacher_objects, source)
          /\ all_teacher_schedules' =
                 merge_teacher_schedules(all_teacher_schedules, source)
    /\ UNCHANGED <<pc, files, pages_read, all_class_schedules>>
    /\ UNCHANGED <<docVars, matchVars, cellVars>>

NextMerge == MergeSchedules

SpecMerge == InitMerge /\ [][NextMerge]_vars

\* the k-th source as it is now
SourceNow(k) == [t \in DOMAIN held[k] |-> heap[<<k, t>>]]

\* the target as it is now
TargetNow == [t \in DOMAIN teacher_objects |-> heap[teacher_objects[t]]]

\* C24: merging leaves the source unchanged.  After any sequence of merges
\* into one target every schedule merged earlier holds exactly the entries
\* it held when it was merged.
C24_SourcesUnchanged ==
    \A k \in 1..Len(held) : SourceNow(k) = held[k]

\* a later merge for the same teacher has added its entry to the schedule
\* merged first
C24_SourceExtended ==
    /\ held = <<ScheduleOf({sELIF_KAYA}, WEEK_DAYS[1], 1, <<sBEDEN, s9A>>),
                ScheduleOf({sELIF_KAYA}, WEEK_DAYS[1], 1, <<sKIMYA, s9B>>)>>
    /\ held[1][sELIF_KAYA][WEEK_DAYS[1]][1] = <<<<sBEDEN, s9A>>>>
    /\ SourceNow(1)[sELIF_KAYA][WEEK_DAYS[1]][1] =
           <<<<sBEDEN, s9A>>, <<sKIMYA, s9B>>>>

\* the target is the merge by value of the sources, and a source is as it
\* was merged wherever the target does not hold the source's own dict
MergeByValueButShared ==
    /\ TargetNow = all_teacher_schedules
    /\ \A k \in 1..Len(held) : \A t \in DOMAIN held[k] :
           teacher_objects[t] # <<k, t>> => heap[<<k, t>>] = held[k][t]

=============================================================================
